---- MODULE Spec2Model ----
(***************************************************************************)
(* Verification model of the freebsd-radix-userland repository.            *)
(*                                                                         *)
(* Part 1 (SpecTrie): the routing-table store behind rn_inithead() in      *)
(*   src/src/radix_stubs.c (add / delete / match / lookup / walk).         *)
(* Part 2 (SpecLock): the XNU read-mostly lock of                          *)
(*   src/src/xnu_kernel/xnu_freebsd_radix.c and xnu_rmlock_advanced.c.     *)
(*                                                                         *)
(* Addresses are AddrBits wide instead of 32 bits; s_addr holds the value  *)
(* ntohl() yields, so the comparisons the code makes on ntohl(s_addr) are  *)
(* comparisons of s_addr here, and memcmp() equality of two s_addr fields  *)
(* is equality of the values.                                              *)
(***************************************************************************)
EXTENDS Integers, Sequences, FiniteSets, TLC

\* ------------------------------------------------------------------------
\* Bounds of the model
\* ------------------------------------------------------------------------
AddrBits == 1
MaxEntries == 2
NThreads == 2
NCpus == 2
MaxReaderSlots == 1
MaxWrites == 2
MaxShimLocks == 2
MaxStaleReaders == 2
WaitTimeout == 3
MaxTick == 2
MaxWaitCalls == 3
MaxNesting == 2
MaxCallbacks == 2
MaxTables == 2
MaxWalkerRet == 2
MaxClock == 4
BoostSlots == 2
WriterThreshold == 1
BiasThreshold == 1
MaxGracePeriods == 2
GpCallbackLimit == 1
MaxRouteCalls == 3
RoutesPerWriter == 2
LookupsPerReader == 3

\* ------------------------------------------------------------------------
\* Program constants
\* ------------------------------------------------------------------------
AF_INET == 2
SockLen == 16

VARIABLES
    entries,      \* radix_stub_head.entries: the linked list, head first
    count,        \* radix_stub_head.count
    last,         \* the last call into the table and what it returned
    liveCount,    \* caller's tally: successful adds minus successful deletes
    live,         \* caller's tally per (key, mask) pair
    lastMut,      \* caller's note of its latest mutating calls
    rm,           \* struct xnu_rmlock
    rw,           \* the lck_rw_t behind rm->rw_lock
    epoch,        \* struct xnu_epoch of rm->read_epoch
    thr,          \* per thread: program position, tracker, waiter
    shared_counter, \* datum the writers update under the write lock
    writes_done,  \* number of completed write sections
    kc_mutex,     \* kernel_compat.h: the pthread_mutex_t behind rmlock_t
    sh,           \* compat_shim.h: struct rmlock
    uthr,         \* per userland thread: its position in the shim calls
    wt,           \* a call of xnu_epoch_wait_preempt: its locals, the epoch
    ectx,         \* an epoch with a callback queue (struct xnu_epoch)
    et,           \* per worker: its epoch tracker and its open enter() calls
    cbs,          \* per callback: whether it is queued or has been executed
    conc,         \* the concurrent stress test: its table, lock, flag and threads
    rl,           \* route library: the tables of route_lib.c / lib/route_lib_stubs.c
    bw,           \* a writer in the wait loop of xnu_rm_wlock_advanced, the clock, the reader slots
    gp,           \* the grace-period state machine of an epoch and its driver
    rc            \* one table of lib/route_lib_stubs.c, its lock and the threads calling it

trieVars == <<entries, count, last, liveCount, live, lastMut>>
lockVars == <<rm, rw, epoch, thr, shared_counter, writes_done>>

\* what the actions of one part leave alone: the variables of the others
shimVars == <<kc_mutex, sh, uthr>>
waitVars == <<wt>>
epochVars == <<ectx, et, cbs>>
concVars == <<conc>>
routeVars == <<rl>>
boostVars == <<bw>>
gpVars == <<gp>>
rcVars == <<rc>>
nonTrieVars == <<lockVars, shimVars, waitVars, epochVars, concVars, routeVars, boostVars, gpVars, rcVars>>
nonLockVars == <<trieVars, shimVars, waitVars, epochVars, concVars, routeVars, boostVars, gpVars, rcVars>>
nonShimVars == <<trieVars, lockVars, waitVars, epochVars, concVars, routeVars, boostVars, gpVars, rcVars>>
nonWaitVars == <<trieVars, lockVars, shimVars, epochVars, concVars, routeVars, boostVars, gpVars, rcVars>>
nonEpochVars == <<trieVars, lockVars, shimVars, waitVars, concVars, routeVars, boostVars, gpVars, rcVars>>
nonConcVars == <<trieVars, lockVars, shimVars, waitVars, epochVars, routeVars, boostVars, gpVars, rcVars>>
nonRouteVars == <<trieVars, lockVars, shimVars, waitVars, epochVars, concVars, boostVars, gpVars, rcVars>>
nonBoostVars == <<trieVars, lockVars, shimVars, waitVars, epochVars, concVars, routeVars, gpVars, rcVars>>
nonGpVars == <<trieVars, lockVars, shimVars, waitVars, epochVars, concVars, routeVars, boostVars, rcVars>>
nonRcVars == <<trieVars, lockVars, shimVars, waitVars, epochVars, concVars, routeVars, boostVars, gpVars>>
vars == <<entries, count, last, liveCount, live, lastMut,
          rm, rw, epoch, thr, shared_counter, writes_done,
          kc_mutex, sh, uthr, wt, ectx, et, cbs, conc, rl, bw, gp, rc>>

\* ------------------------------------------------------------------------
\* Addresses, masks, sockaddr
\* ------------------------------------------------------------------------
RECURSIVE Pow2(_)
Pow2(n) == IF n = 0 THEN 1 ELSE 2 * Pow2(n - 1)

AddrMax == Pow2(AddrBits) - 1
Addrs == 0 .. AddrMax

\* bitwise AND of two naturals, as the C operator & on uint32_t
RECURSIVE BitAnd(_, _)
BitAnd(a, b) ==
    IF a = 0 \/ b = 0 THEN 0
    ELSE (a % 2) * (b % 2) + 2 * BitAnd(a \div 2, b \div 2)

\* A null pointer argument
NullPtr == [sa_len |-> -1, sa_family |-> -1, s_addr |-> -1]

\* A zero-filled sockaddr_storage (M_ZERO allocation)
ZeroSockaddr == [sa_len |-> 0, sa_family |-> 0, s_addr |-> 0]

\* userland_make_sockaddr_in: sin_len, sin_family, sin_addr of an address
userland_make_sockaddr_in(a) ==
    [sa_len |-> SockLen, sa_family |-> AF_INET, s_addr |-> a]

\* userland_make_netmask: htonl(~((1U << (32 - prefixlen)) - 1)), 0 for /0
userland_make_netmask(prefixlen) ==
    [sa_len |-> SockLen, sa_family |-> AF_INET,
     s_addr |-> IF prefixlen = 0 THEN 0
                ELSE AddrMax - (Pow2(AddrBits - prefixlen) - 1)]

\* memcmp(a, b, n) == 0 on two sockaddr_in: byte 0 is sa_len, byte 1 is
\* sa_family, bytes 4..7 are sin_addr, the other bytes are zero in both.
MemEq(a, b, n) ==
    /\ (n >= 1 => a.sa_len = b.sa_len)
    /\ (n >= 2 => a.sa_family = b.sa_family)
    /\ (n >= 5 => a.s_addr = b.s_addr)

\* The callers' arguments: a destination made by userland_make_sockaddr_in,
\* and a mask that is a null pointer or made by userland_make_netmask.
\* Destinations are network addresses of their prefix (dst & mask = dst).
PrefixLens == 0 .. AddrBits
MaskArgs == {NullPtr} \cup {userland_make_netmask(l) : l \in PrefixLens}
DstArgs == {userland_make_sockaddr_in(a) : a \in Addrs}
RouteArgs ==
    {<<d, m>> \in DstArgs \X MaskArgs :
        m = NullPtr \/ BitAnd(d.s_addr, m.s_addr) = d.s_addr}

\* ------------------------------------------------------------------------
\* The table of radix_stubs.c: pure functions of the entry list
\* ------------------------------------------------------------------------
\* struct radix_stub_entry, as stub_addaddr fills it: dst is a copy of the
\* key; mask is a copy of the mask, or stays zero-filled for a null mask.
new_stub_entry(v, mask) ==
    [dst |-> v, mask |-> IF mask = NullPtr THEN ZeroSockaddr ELSE mask]

\* stub_addaddr: the list after the call (the new entry becomes the head)
stub_addaddr(list, v, mask) == <<new_stub_entry(v, mask)>> \o list

\* the exact-match test of stub_deladdr's loop body
deladdr_match_nomask(e, lookup_dst, lookup_mask) ==
    MemEq(e.dst, lookup_dst, lookup_dst.sa_len)

deladdr_match(e, lookup_dst, lookup_mask) ==
    LET dst_match == MemEq(e.dst, lookup_dst, lookup_dst.sa_len)
        mask_match ==
            IF lookup_mask # NullPtr /\ e.mask.sa_len > 0
            THEN MemEq(e.mask, lookup_mask, lookup_mask.sa_len)
            ELSE IF lookup_mask # NullPtr \/ e.mask.sa_len > 0
                 THEN FALSE
                 ELSE TRUE
    IN dst_match /\ mask_match

\* stub_deladdr's loop: index of the first entry that matches, 0 for NULL
RECURSIVE deladdr_scan(_, _, _, _)
deladdr_scan(list, i, lookup_dst, lookup_mask) ==
    IF i > Len(list) THEN 0
    ELSE IF deladdr_match(list[i], lookup_dst, lookup_mask) THEN i
    ELSE deladdr_scan(list, i + 1, lookup_dst, lookup_mask)

\* *prev = entry->next: the list without its i-th entry
unlink_keep(list, i) == list

unlink(list, i) ==
    [j \in 1 .. (Len(list) - 1) |-> IF j < i THEN list[j] ELSE list[j + 1]]

\* stub_deladdr: [ret: index of the removed entry or 0, list: the list after]
stub_deladdr(list, lookup_dst, lookup_mask) ==
    LET i == deladdr_scan(list, 1, lookup_dst, lookup_mask)
    IN [ret |-> i, list |-> IF i = 0 THEN list ELSE unlink(list, i)]

\* the exact-match test of stub_lookup's loop body
lookup_match(e, lookup_dst, lookup_mask) ==
    LET dst_match == MemEq(e.dst, lookup_dst, lookup_dst.sa_len)
        mask_match ==
            IF lookup_mask # NullPtr /\ e.mask.sa_len > 0
            THEN MemEq(e.mask, lookup_mask, lookup_mask.sa_len)
            ELSE IF lookup_mask # NullPtr \/ e.mask.sa_len > 0
                 THEN FALSE
                 ELSE TRUE
    IN dst_match /\ mask_match

\* stub_lookup: index of the first entry that matches exactly, 0 for NULL
RECURSIVE stub_lookup_scan(_, _, _, _)
stub_lookup_scan(list, i, lookup_dst, lookup_mask) ==
    IF i > Len(list) THEN 0
    ELSE IF lookup_match(list[i], lookup_dst, lookup_mask) THEN i
    ELSE stub_lookup_scan(list, i + 1, lookup_dst, lookup_mask)

stub_lookup(list, lookup_dst, lookup_mask) ==
    stub_lookup_scan(list, 1, lookup_dst, lookup_mask)

\* addr_matches: its mask argument is &entry->mask, never a null pointer
addr_matches(addr, dst, mask) ==
    IF addr = NullPtr \/ dst = NullPtr THEN FALSE
    ELSE IF addr.sa_family # dst.sa_family THEN FALSE
    ELSE IF addr.sa_family = AF_INET
         THEN LET mask_ip == IF mask # NullPtr THEN mask.s_addr ELSE AddrMax
              IN BitAnd(addr.s_addr, mask_ip) = BitAnd(dst.s_addr, mask_ip)
         ELSE FALSE

\* stub_matchaddr's loop: best_match is an index (0 for NULL)
RECURSIVE matchaddr_scan(_, _, _, _, _)
matchaddr_scan(list, i, lookup, best_match, best_mask) ==
    IF i > Len(list) THEN best_match
    ELSE LET e == list[i]
             hit == addr_matches(lookup, e.dst, e.mask)
         IN IF hit /\ e.mask.sa_family = AF_INET /\ e.mask.s_addr >= best_mask
            THEN matchaddr_scan(list, i + 1, lookup, i, e.mask.s_addr)
            ELSE IF hit /\ e.mask.sa_family # AF_INET /\ best_match = 0
            THEN matchaddr_scan(list, i + 1, lookup, i, best_mask)
            ELSE matchaddr_scan(list, i + 1, lookup, best_match, best_mask)

stub_matchaddr(list, lookup) == matchaddr_scan(list, 1, lookup, 0, 0)

\* stub_walktree with a visitor that returns non-zero (1) on its stopAt-th
\* call and 0 on every other call (stopAt = 0: it always returns 0).
\* [visited: the indices handed to the visitor, in order; ret: the result]
RECURSIVE walktree_scan(_, _, _, _)
walktree_scan(list, i, stopAt, visited) ==
    IF i > Len(list) THEN [visited |-> visited, ret |-> 0]
    ELSE IF i = stopAt THEN [visited |-> Append(visited, i), ret |-> 1]
    ELSE walktree_scan(list, i + 1, stopAt, Append(visited, i))

stub_walktree_skip_head(list, stopAt) ==
    walktree_scan(list, 2, stopAt, <<>>)

stub_walktree(list, stopAt) == walktree_scan(list, 1, stopAt, <<>>)

\* ------------------------------------------------------------------------
\* The caller of the table (the tests' bookkeeping) and the calls it makes
\* ------------------------------------------------------------------------
NoPair == <<NullPtr, NullPtr>>

\* kind "add": the latest mutation added pair; "addDel": the latest two
\* added pair and then deleted it; outOfOrder: since the latest add, a
\* delete removed an entry that was not the most recently added one
Note(kind, pair, outOfOrder) ==
    [kind |-> kind, pair |-> pair, outOfOrder |-> outOfOrder]

Call(op, dst, mask, ret, pre, visited, stopAt, wasLive) ==
    [op |-> op, dst |-> dst, mask |-> mask, ret |-> ret, pre |-> pre,
     visited |-> visited, stopAt |-> stopAt, wasLive |-> wasLive]

\* rn_inithead: an empty list, count 0
InitTable ==
    /\ entries = <<>>
    /\ count = 0
    /\ last = Call("init", NullPtr, NullPtr, 0, <<>>, <<>>, 0, FALSE)
    /\ liveCount = 0
    /\ live = [p \in RouteArgs |-> 0]
    /\ lastMut = Note("none", NoPair, FALSE)

\* rnh_addaddr(v, mask, head, nodes) with bsd_malloc succeeding
AddAddr(v, mask) ==
    /\ Len(entries) < MaxEntries
    /\ entries' = stub_addaddr(entries, v, mask)
    /\ count' = count + 1
    /\ last' = Call("add", v, mask, 1, entries, <<>>, 0, live[<<v, mask>>] > 0)
    /\ liveCount' = liveCount + 1
    /\ live' = [live EXCEPT ![<<v, mask>>] = @ + 1]
    /\ lastMut' = Note("add", <<v, mask>>, FALSE)
    /\ UNCHANGED nonTrieVars

\* rnh_addaddr(v, mask, head, nodes) with bsd_malloc returning NULL
AddAddrNoMem(v, mask) ==
    /\ last' = Call("add", v, mask, 0, entries, <<>>, 0, live[<<v, mask>>] > 0)
    /\ UNCHANGED <<entries, count, liveCount, live, lastMut>>
    /\ UNCHANGED nonTrieVars

\* rnh_deladdr(v, mask, head)
DelAddr(v, mask) ==
    LET r == stub_deladdr(entries, v, mask)
        ok == r.ret # 0
    IN /\ entries' = r.list
       /\ count' = IF ok THEN count - 1 ELSE count
       /\ last' = Call("del", v, mask, r.ret, entries, <<>>, 0,
                       live[<<v, mask>>] > 0)
       /\ liveCount' = IF ok THEN liveCount - 1 ELSE liveCount
       /\ live' = IF ok /\ live[<<v, mask>>] > 0
                  THEN [live EXCEPT ![<<v, mask>>] = @ - 1]
                  ELSE live
       /\ lastMut' = IF ~ok THEN lastMut
                     ELSE IF lastMut.kind = "add" /\ lastMut.pair = <<v, mask>>
                     THEN Note("addDel", <<v, mask>>,
                               lastMut.outOfOrder \/ r.ret > 1)
                     ELSE Note("none", NoPair,
                               lastMut.outOfOrder \/ r.ret > 1)
       /\ UNCHANGED nonTrieVars

\* rnh_matchaddr(v, head)
MatchAddr(v) ==
    /\ last' = Call("match", v, NullPtr, stub_matchaddr(entries, v), entries,
                    <<>>, 0, FALSE)
    /\ UNCHANGED <<entries, count, liveCount, live, lastMut>>
    /\ UNCHANGED nonTrieVars

\* rnh_lookup(v, mask, head)
Lookup(v, mask) ==
    /\ last' = Call("lookup", v, mask, stub_lookup(entries, v, mask), entries,
                    <<>>, 0, live[<<v, mask>>] > 0)
    /\ UNCHANGED <<entries, count, liveCount, live, lastMut>>
    /\ UNCHANGED nonTrieVars

\* rnh_walktree(head, f, w)
WalkTree(stopAt) ==
    LET r == stub_walktree(entries, stopAt)
    IN /\ last' = Call("walk", NullPtr, NullPtr, r.ret, entries, r.visited,
                       stopAt, FALSE)
       /\ UNCHANGED <<entries, count, liveCount, live, lastMut>>
       /\ UNCHANGED nonTrieVars
    /\ UNCHANGED nonTrieVars

StopAts == 0 .. 2

NextTrie ==
    \/ \E p \in RouteArgs : AddAddr(p[1], p[2])
    \/ \E p \in RouteArgs : AddAddrNoMem(p[1], p[2])
    \/ \E p \in RouteArgs : DelAddr(p[1], p[2])
    \/ \E d \in DstArgs : MatchAddr(d)
    \/ \E p \in RouteArgs : Lookup(p[1], p[2])
    \/ \E s \in StopAts : WalkTree(s)

\* ------------------------------------------------------------------------
\* The XNU read-mostly lock: state
\* ------------------------------------------------------------------------
Threads == 1 .. NThreads
Cpus == 1 .. NCpus
Slots == 1 .. MaxReaderSlots
THREAD_NULL == 0

\* thread_get_importance(thread): fixed per thread
thread_get_importance(t) == t % 2

\* xnu_rm_init_advanced: the lock as initialised (max_readers slots)
rm_init ==
    [fast_path_enabled |-> 1,
     writer_priority   |-> FALSE,
     waiting_writers   |-> 0,
     current_readers   |-> 0,
     current_writer    |-> THREAD_NULL,
     active_readers    |-> [i \in Slots |-> THREAD_NULL],
     writer_wait_queue |-> <<>>]

\* lck_rw_alloc_init: nobody holds the lock
rw_init == [excl |-> THREAD_NULL, shared |-> {}]

\* xnu_epoch_alloc and xnu_epoch_init_cpu_state
epoch_init ==
    [epoch_number   |-> 1,
     active_readers |-> 0,
     cpu_readers    |-> [c \in Cpus |-> 0],
     call_depth     |-> [c \in Cpus |-> 0]]

\* a thread outside the lock, with a zero-filled tracker
thread_init ==
    [pc |-> "idle", fast_path |-> FALSE, et_active |-> FALSE, et_cpu |-> 0,
     nesting |-> 0, asleep |-> FALSE, local |-> 0]

InitLock ==
    /\ rm = rm_init
    /\ rw = rw_init
    /\ epoch = epoch_init
    /\ thr = [t \in Threads |-> thread_init]
    /\ shared_counter = 0
    /\ writes_done = 0

Goto(t, label) == [thr EXCEPT ![t].pc = label]

\* ------------------------------------------------------------------------
\* Kernel primitives the lock is built on
\* ------------------------------------------------------------------------
\* lck_rw_lock_exclusive returns once no thread holds the lock in any mode
lck_rw_exclusive_free_ignore_holder(lock) == TRUE

lck_rw_exclusive_free(lock) == lock.excl = THREAD_NULL /\ lock.shared = {}

\* lck_rw_lock_shared returns once no thread holds the lock exclusively
lck_rw_shared_free(lock) == lock.excl = THREAD_NULL

\* thread_wakeup((event_t)thread): ends the wait the thread asserted
thread_wakeup(threads, t) == [threads EXCEPT ![t].asleep = FALSE]

\* xnu_rm_wakeup_writers: wake the first waiter of the queue, if there is one
xnu_rm_wakeup_writers(lock, threads) ==
    IF lock.writer_wait_queue # <<>>
    THEN thread_wakeup(threads, lock.writer_wait_queue[1].thread)
    ELSE threads

\* ------------------------------------------------------------------------
\* Epoch enter / exit (xnu_freebsd_radix.h)
\* ------------------------------------------------------------------------
\* xnu_epoch_enter_preempt on CPU c with the tracker of thread record tr
xnu_epoch_enter_preempt(ep, tr, c) ==
    IF tr.et_active /\ tr.et_cpu = c
    THEN [epoch |-> [ep EXCEPT !.call_depth[c] = @ + 1],
          tr    |-> [tr EXCEPT !.nesting = @ + 1]]
    ELSE [epoch |-> [ep EXCEPT !.cpu_readers[c] = @ + 1,
                               !.call_depth[c] = @ + 1],
          tr    |-> [tr EXCEPT !.et_active = TRUE, !.et_cpu = c,
                               !.nesting = 1]]

\* xnu_epoch_exit_preempt with the tracker of thread record tr
xnu_epoch_exit_preempt(ep, tr) ==
    IF tr.nesting > 1
    THEN [epoch |-> [ep EXCEPT !.call_depth[tr.et_cpu] = @ - 1],
          tr    |-> [tr EXCEPT !.nesting = @ - 1]]
    ELSE [epoch |-> [ep EXCEPT !.cpu_readers[tr.et_cpu] = @ - 1,
                               !.call_depth[tr.et_cpu] = @ - 1],
          tr    |-> [tr EXCEPT !.et_active = FALSE, !.et_cpu = 0,
                               !.nesting = 0]]

\* ------------------------------------------------------------------------
\* Read lock: xnu_rm_rlock_advanced and xnu_rm_runlock, step by step
\* ------------------------------------------------------------------------
\* if (try_fast_path && rm->fast_path_enabled && !rm->writer_priority)
R_Start(t, try_fast_path) ==
    /\ thr[t].pc = "idle"
    /\ thr' = Goto(t, IF try_fast_path /\ rm.fast_path_enabled = 1
                         /\ ~rm.writer_priority
                      THEN "r_enter" ELSE "r_slow")
    /\ UNCHANGED <<rm, rw, epoch, shared_counter, writes_done>>
    /\ UNCHANGED nonLockVars

\* xnu_epoch_enter_preempt(rm->read_epoch, &tracker->epoch_tracker)
R_EpochEnter(t, c) ==
    /\ thr[t].pc = "r_enter"
    /\ LET r == xnu_epoch_enter_preempt(epoch, thr[t], c)
       IN /\ epoch' = r.epoch
          /\ thr' = [thr EXCEPT ![t] = [r.tr EXCEPT !.pc = "r_track"]]
    /\ UNCHANGED <<rm, rw, shared_counter, writes_done>>
    /\ UNCHANGED nonLockVars

FreeSlots(lock) == {i \in Slots : lock.active_readers[i] = THREAD_NULL}
SlotsOf(lock, t) == {i \in Slots : lock.active_readers[i] = t}
FirstOf(S) == CHOOSE i \in S : \A j \in S : i <= j

\* xnu_rm_track_reader: take the first empty slot, or report contention
R_Track(t) ==
    /\ thr[t].pc = "r_track"
    /\ IF FreeSlots(rm) # {}
       THEN /\ rm' = [rm EXCEPT !.active_readers[FirstOf(FreeSlots(rm))] = t,
                                !.current_readers = @ + 1]
            /\ thr' = [thr EXCEPT ![t].fast_path = TRUE, ![t].pc = "r_cs"]
       ELSE /\ rm' = rm
            /\ thr' = [thr EXCEPT ![t].fast_path = FALSE,
                                  ![t].pc = "r_fallback"]
    /\ UNCHANGED <<rw, epoch, shared_counter, writes_done>>
    /\ UNCHANGED nonLockVars

\* fast path failed: xnu_epoch_exit_preempt, then the slow path
R_Fallback(t) ==
    /\ thr[t].pc = "r_fallback"
    /\ LET r == xnu_epoch_exit_preempt(epoch, thr[t])
       IN /\ epoch' = r.epoch
          /\ thr' = [thr EXCEPT ![t] = [r.tr EXCEPT !.pc = "r_slow"]]
    /\ UNCHANGED <<rm, rw, shared_counter, writes_done>>
    /\ UNCHANGED nonLockVars

\* lck_rw_lock_shared(rm->rw_lock); tracker->fast_path = false
R_SlowLock(t) ==
    /\ thr[t].pc = "r_slow"
    /\ lck_rw_shared_free(rw)
    /\ rw' = [rw EXCEPT !.shared = @ \cup {t}]
    /\ thr' = [thr EXCEPT ![t].fast_path = FALSE, ![t].pc = "r_starve"]
    /\ UNCHANGED <<rm, epoch, shared_counter, writes_done>>
    /\ UNCHANGED nonLockVars

\* the writer-starvation check of the slow path; late: the writers' wait
\* time exceeds rm->writer_threshold
R_StarveCheck(t, late) ==
    /\ thr[t].pc = "r_starve"
    /\ rm' = IF rm.waiting_writers > 0 /\ late
             THEN [rm EXCEPT !.writer_priority = TRUE,
                             !.fast_path_enabled = 0]
             ELSE rm
    /\ thr' = Goto(t, "r_cs")
    /\ UNCHANGED <<rw, epoch, shared_counter, writes_done>>
    /\ UNCHANGED nonLockVars

\* xnu_rm_runlock: the slow path releases the lock, the fast path goes on
\* to xnu_rm_untrack_reader
R_Unlock(t) ==
    /\ thr[t].pc = "r_cs"
    /\ IF thr[t].fast_path
       THEN /\ thr' = Goto(t, "r_untrack")
            /\ rw' = rw
       ELSE /\ thr' = Goto(t, "idle")
            /\ rw' = [rw EXCEPT !.shared = @ \ {t}]
    /\ UNCHANGED <<rm, epoch, shared_counter, writes_done>>
    /\ UNCHANGED nonLockVars

\* memset(reader_slot, 0, sizeof(*reader_slot)); rm->current_readers--
clear_reader_slot_keeping_count(lock, i) ==
    [lock EXCEPT !.active_readers[i] = THREAD_NULL]

clear_reader_slot(lock, i) ==
    [lock EXCEPT !.active_readers[i] = THREAD_NULL,
                 !.current_readers = @ - 1]

\* xnu_rm_untrack_reader: clear this thread's slot, wake a waiting writer
\* when the last tracked reader leaves
R_Untrack(t) ==
    /\ thr[t].pc = "r_untrack"
    /\ LET mine == SlotsOf(rm, t)
           after == IF mine = {} THEN rm
                    ELSE clear_reader_slot(rm, FirstOf(mine))
           woken == IF mine # {} /\ after.waiting_writers > 0
                       /\ after.current_readers = 0
                    THEN xnu_rm_wakeup_writers(after, thr)
                    ELSE thr
       IN /\ rm' = after
          /\ thr' = [woken EXCEPT ![t].pc = "r_exit"]
    /\ UNCHANGED <<rw, epoch, shared_counter, writes_done>>
    /\ UNCHANGED nonLockVars

\* xnu_epoch_exit_preempt, then the tracker is cleared
R_EpochExit(t) ==
    /\ thr[t].pc = "r_exit"
    /\ LET r == xnu_epoch_exit_preempt(epoch, thr[t])
       IN /\ epoch' = r.epoch
          /\ thr' = [thr EXCEPT ![t] = [r.tr EXCEPT !.fast_path = FALSE,
                                                    !.pc = "idle"]]
    /\ UNCHANGED <<rm, rw, shared_counter, writes_done>>
    /\ UNCHANGED nonLockVars

\* ------------------------------------------------------------------------
\* Write lock: xnu_rm_wlock_advanced and xnu_rm_wunlock, step by step
\* ------------------------------------------------------------------------
WriterPcs == {"w_enqueue", "w_check", "w_assert", "w_blocked", "w_dequeue",
              "w_excl", "w_epochwait", "w_setwriter", "w_cs", "w_cs2"}

\* write sections begun and not yet completed, plus those completed
WritesBegun == writes_done + Cardinality({t \in Threads : thr[t].pc \in WriterPcs})

\* where xnu_rm_wlock_advanced goes first:
\* if (fair_mode || rm->waiting_writers > 0) the queue, else the lock
wlock_first_step(lock, fair_mode) ==
    IF fair_mode \/ lock.waiting_writers > 0 THEN "w_enqueue" ELSE "w_excl"

\* xnu_rm_wlock_advanced(rm, fair_mode) is called
W_Start(t, fair_mode) ==
    /\ thr[t].pc = "idle"
    /\ WritesBegun < MaxWrites
    /\ thr' = Goto(t, wlock_first_step(rm, fair_mode))
    /\ UNCHANGED <<rm, rw, epoch, shared_counter, writes_done>>
    /\ UNCHANGED nonLockVars

\* the queue after queue_insert_before / queue_enter of a waiter: before
\* the first waiter of lower priority, else at the tail
RECURSIVE insert_by_priority(_, _)
insert_by_priority(q, w) ==
    IF q = <<>> THEN <<w>>
    ELSE IF w.priority > Head(q).priority THEN <<w>> \o q
    ELSE <<Head(q)>> \o insert_by_priority(Tail(q), w)

\* xnu_rm_enqueue_writer
W_Enqueue(t) ==
    /\ thr[t].pc = "w_enqueue"
    /\ rm' = [rm EXCEPT
                !.writer_wait_queue = insert_by_priority(@,
                    [thread |-> t, priority |-> thread_get_importance(t)]),
                !.waiting_writers = @ + 1]
    /\ thr' = Goto(t, "w_check")
    /\ UNCHANGED <<rw, epoch, shared_counter, writes_done>>
    /\ UNCHANGED nonLockVars

\* while (rm->waiting_writers > 1 || rm->current_readers > 0)
W_Check(t) ==
    /\ thr[t].pc = "w_check"
    /\ thr' = Goto(t, IF rm.waiting_writers > 1 \/ rm.current_readers > 0
                      THEN "w_assert" ELSE "w_dequeue")
    /\ UNCHANGED <<rm, rw, epoch, shared_counter, writes_done>>
    /\ UNCHANGED nonLockVars

\* assert_wait((event_t)current_thread(), THREAD_UNINT)
W_AssertWait(t) ==
    /\ thr[t].pc = "w_assert"
    /\ thr' = [thr EXCEPT ![t].asleep = TRUE, ![t].pc = "w_blocked"]
    /\ UNCHANGED <<rm, rw, epoch, shared_counter, writes_done>>
    /\ UNCHANGED nonLockVars

\* thread_block returns once the thread has been woken
W_Block(t) ==
    /\ thr[t].pc = "w_blocked"
    /\ ~thr[t].asleep
    /\ thr' = Goto(t, "w_check")
    /\ UNCHANGED <<rm, rw, epoch, shared_counter, writes_done>>
    /\ UNCHANGED nonLockVars

\* queue_remove of thread t's waiter, when the queue is not empty
queue_remove_waiter(lock, t) ==
    IF lock.writer_wait_queue # <<>>
    THEN [lock EXCEPT
            !.writer_wait_queue = SelectSeq(@, LAMBDA w : w.thread # t),
            !.waiting_writers = @ - 1]
    ELSE lock

\* xnu_rm_dequeue_writer without its last step
xnu_rm_dequeue_writer_keep_flags(lock, t) == queue_remove_waiter(lock, t)

\* xnu_rm_dequeue_writer: remove the waiter; with no writer left waiting,
\* restore reader preference
xnu_rm_dequeue_writer(lock, t) ==
    LET removed == queue_remove_waiter(lock, t)
    IN IF removed.waiting_writers = 0
       THEN [removed EXCEPT !.writer_priority = FALSE,
                            !.fast_path_enabled = 1]
       ELSE removed

\* xnu_rm_dequeue_writer(rm, &waiter) after the wait loop
W_Dequeue(t) ==
    /\ thr[t].pc = "w_dequeue"
    /\ rm' = xnu_rm_dequeue_writer(rm, t)
    /\ thr' = Goto(t, "w_excl")
    /\ UNCHANGED <<rw, epoch, shared_counter, writes_done>>
    /\ UNCHANGED nonLockVars

\* lck_rw_lock_exclusive(rm->rw_lock)
W_Exclusive(t) ==
    /\ thr[t].pc = "w_excl"
    /\ lck_rw_exclusive_free(rw)
    /\ rw' = [rw EXCEPT !.excl = t]
    /\ thr' = Goto(t, "w_epochwait")
    /\ UNCHANGED <<rm, epoch, shared_counter, writes_done>>
    /\ UNCHANGED nonLockVars

\* xnu_epoch_wait_preempt: loop while epoch->active_readers > 0 and the
\* timeout has not passed, then advance the epoch number
W_EpochWait(t, timed_out) ==
    /\ thr[t].pc = "w_epochwait"
    /\ IF epoch.active_readers > 0 /\ ~timed_out
       THEN UNCHANGED <<epoch, thr>>
       ELSE /\ epoch' = [epoch EXCEPT !.epoch_number = @ + 1]
            /\ thr' = Goto(t, "w_setwriter")
    /\ UNCHANGED <<rm, rw, shared_counter, writes_done>>
    /\ UNCHANGED nonLockVars

\* rm->current_writer = current_thread(); xnu_rm_wlock_advanced returns
W_SetWriter(t) ==
    /\ thr[t].pc = "w_setwriter"
    /\ rm' = [rm EXCEPT !.current_writer = t]
    /\ thr' = Goto(t, "w_cs")
    /\ UNCHANGED <<rw, epoch, shared_counter, writes_done>>
    /\ UNCHANGED nonLockVars

\* the write section of writer_thread: shared_counter++ is a load ...
W_Read(t) ==
    /\ thr[t].pc = "w_cs"
    /\ thr' = [thr EXCEPT ![t].local = shared_counter, ![t].pc = "w_cs2"]
    /\ UNCHANGED <<rm, rw, epoch, shared_counter, writes_done>>
    /\ UNCHANGED nonLockVars

\* ... and a store
W_Write(t) ==
    /\ thr[t].pc = "w_cs2"
    /\ shared_counter' = thr[t].local + 1
    /\ writes_done' = writes_done + 1
    /\ thr' = [thr EXCEPT ![t].local = 0, ![t].pc = "w_unlock"]
    /\ UNCHANGED <<rm, rw, epoch>>
    /\ UNCHANGED nonLockVars

\* xnu_rm_wunlock: rm->current_writer = THREAD_NULL
W_ClearWriter(t) ==
    /\ thr[t].pc = "w_unlock"
    /\ rm' = [rm EXCEPT !.current_writer = THREAD_NULL]
    /\ thr' = Goto(t, "w_release")
    /\ UNCHANGED <<rw, epoch, shared_counter, writes_done>>
    /\ UNCHANGED nonLockVars

\* xnu_rm_wunlock: lck_rw_unlock_exclusive(rm->rw_lock)
W_Release(t) ==
    /\ thr[t].pc = "w_release"
    /\ rw' = [rw EXCEPT !.excl = THREAD_NULL]
    /\ thr' = Goto(t, "w_wakeup")
    /\ UNCHANGED <<rm, epoch, shared_counter, writes_done>>
    /\ UNCHANGED nonLockVars

\* xnu_rm_wunlock: xnu_rm_wakeup_writers(rm)
W_Wakeup(t) ==
    /\ thr[t].pc = "w_wakeup"
    /\ thr' = [xnu_rm_wakeup_writers(rm, thr) EXCEPT ![t].pc = "idle"]
    /\ UNCHANGED <<rm, rw, epoch, shared_counter, writes_done>>
    /\ UNCHANGED nonLockVars

NextLock ==
    \E t \in Threads :
        \/ \E f \in BOOLEAN : R_Start(t, f)
        \/ \E c \in Cpus : R_EpochEnter(t, c)
        \/ R_Track(t)
        \/ R_Fallback(t)
        \/ R_SlowLock(t)
        \/ \E late \in BOOLEAN : R_StarveCheck(t, late)
        \/ R_Unlock(t)
        \/ R_Untrack(t)
        \/ R_EpochExit(t)
        \/ \E f \in BOOLEAN : W_Start(t, f)
        \/ W_Enqueue(t)
        \/ W_Check(t)
        \/ W_AssertWait(t)
        \/ W_Block(t)
        \/ W_Dequeue(t)
        \/ W_Exclusive(t)
        \/ \E o \in BOOLEAN : W_EpochWait(t, o)
        \/ W_SetWriter(t)
        \/ W_Read(t)
        \/ W_Write(t)
        \/ W_ClearWriter(t)
        \/ W_Release(t)
        \/ W_Wakeup(t)

\* ------------------------------------------------------------------------
\* The userland lock shims: kernel_compat.h (rmlock_t is a pthread mutex)
\* and compat_shim.h (struct rmlock around a pthread read-write lock)
\* ------------------------------------------------------------------------
\* pthread_mutex_init / rm_init_flags (memset 0, lock objects initialised)
InitShim ==
    /\ kc_mutex = THREAD_NULL
    /\ sh = [wr |-> THREAD_NULL, rd |-> {}, readers |-> 0, writers |-> 0,
             total_reads |-> 0, total_writes |-> 0]
    /\ uthr = [t \in Threads |-> "idle"]

UGoto(t, label) == [uthr EXCEPT ![t] = label]

\* pthread_mutex_lock returns once no thread owns the mutex
pthread_mutex_free(m) == m = THREAD_NULL

\* kernel_compat.h rm_rlock(lock, tracker): pthread_mutex_lock(lock) called
KC_RLockCall(t) ==
    /\ uthr[t] = "idle"
    /\ uthr' = UGoto(t, "kc_rlock")
    /\ UNCHANGED <<kc_mutex, sh>>
    /\ UNCHANGED nonShimVars

\* kernel_compat.h rm_rlock: pthread_mutex_lock(lock) returns
KC_RLock(t) ==
    /\ uthr[t] = "kc_rlock"
    /\ pthread_mutex_free(kc_mutex)
    /\ kc_mutex' = t
    /\ uthr' = UGoto(t, "kc_r_cs")
    /\ UNCHANGED sh
    /\ UNCHANGED nonShimVars

\* kernel_compat.h rm_runlock(lock, tracker): pthread_mutex_unlock(lock)
KC_RUnlock(t) ==
    /\ uthr[t] = "kc_r_cs"
    /\ kc_mutex' = THREAD_NULL
    /\ uthr' = UGoto(t, "idle")
    /\ UNCHANGED sh
    /\ UNCHANGED nonShimVars

\* kernel_compat.h rm_wlock(lock): pthread_mutex_lock(lock) called
KC_WLockCall(t) ==
    /\ uthr[t] = "idle"
    /\ uthr' = UGoto(t, "kc_wlock")
    /\ UNCHANGED <<kc_mutex, sh>>
    /\ UNCHANGED nonShimVars

\* kernel_compat.h rm_wlock: pthread_mutex_lock(lock) returns
KC_WLock(t) ==
    /\ uthr[t] = "kc_wlock"
    /\ pthread_mutex_free(kc_mutex)
    /\ kc_mutex' = t
    /\ uthr' = UGoto(t, "kc_w_cs")
    /\ UNCHANGED sh
    /\ UNCHANGED nonShimVars

\* kernel_compat.h rm_wunlock(lock): pthread_mutex_unlock(lock)
KC_WUnlock(t) ==
    /\ uthr[t] = "kc_w_cs"
    /\ kc_mutex' = THREAD_NULL
    /\ uthr' = UGoto(t, "idle")
    /\ UNCHANGED sh
    /\ UNCHANGED nonShimVars

\* pthread_rwlock_wrlock returns once no thread holds the lock in any mode
pthread_rwlock_wr_free_of_writers(l) == l.wr = THREAD_NULL

pthread_rwlock_wr_free(l) == l.wr = THREAD_NULL /\ l.rd = {}

\* pthread_rwlock_rdlock returns once no thread holds the lock for writing
pthread_rwlock_rd_free(l) == l.wr = THREAD_NULL

\* read and write acquisitions begun on the compat_shim.h lock so far
ShimReadsBegun ==
    sh.total_reads
        + Cardinality({t \in Threads : uthr[t] \in {"sh_rdlock", "sh_rstats"}})
ShimWritesBegun ==
    sh.total_writes
        + Cardinality({t \in Threads : uthr[t] \in {"sh_wrlock", "sh_wstats"}})

\* compat_shim.h rm_rlock: pthread_rwlock_rdlock(&rm->rw_lock) called
SH_RLockCall(t) ==
    /\ uthr[t] = "idle"
    /\ ShimReadsBegun < MaxShimLocks
    /\ uthr' = UGoto(t, "sh_rdlock")
    /\ UNCHANGED <<kc_mutex, sh>>
    /\ UNCHANGED nonShimVars

\* compat_shim.h rm_rlock: pthread_rwlock_rdlock returns
SH_RdLock(t) ==
    /\ uthr[t] = "sh_rdlock"
    /\ pthread_rwlock_rd_free(sh)
    /\ sh' = [sh EXCEPT !.rd = @ \cup {t}]
    /\ uthr' = UGoto(t, "sh_rstats")
    /\ UNCHANGED kc_mutex
    /\ UNCHANGED nonShimVars

\* compat_shim.h rm_rlock: readers++, total_reads++ under stats_lock
SH_RStats(t) ==
    /\ uthr[t] = "sh_rstats"
    /\ sh' = [sh EXCEPT !.readers = @ + 1, !.total_reads = @ + 1]
    /\ uthr' = UGoto(t, "sh_r_cs")
    /\ UNCHANGED kc_mutex
    /\ UNCHANGED nonShimVars

\* compat_shim.h rm_runlock: readers-- under stats_lock
SH_RUnstats(t) ==
    /\ uthr[t] = "sh_r_cs"
    /\ sh' = [sh EXCEPT !.readers = @ - 1]
    /\ uthr' = UGoto(t, "sh_runlock")
    /\ UNCHANGED kc_mutex
    /\ UNCHANGED nonShimVars

\* compat_shim.h rm_runlock: pthread_rwlock_unlock(&rm->rw_lock)
SH_RUnlock(t) ==
    /\ uthr[t] = "sh_runlock"
    /\ sh' = [sh EXCEPT !.rd = @ \ {t}]
    /\ uthr' = UGoto(t, "idle")
    /\ UNCHANGED kc_mutex
    /\ UNCHANGED nonShimVars

\* compat_shim.h rm_wlock: pthread_rwlock_wrlock(&rm->rw_lock) called
SH_WLockCall(t) ==
    /\ uthr[t] = "idle"
    /\ ShimWritesBegun < MaxShimLocks
    /\ uthr' = UGoto(t, "sh_wrlock")
    /\ UNCHANGED <<kc_mutex, sh>>
    /\ UNCHANGED nonShimVars

\* compat_shim.h rm_wlock: pthread_rwlock_wrlock returns
SH_WrLock(t) ==
    /\ uthr[t] = "sh_wrlock"
    /\ pthread_rwlock_wr_free(sh)
    /\ sh' = [sh EXCEPT !.wr = t]
    /\ uthr' = UGoto(t, "sh_wstats")
    /\ UNCHANGED kc_mutex
    /\ UNCHANGED nonShimVars

\* compat_shim.h rm_wlock: writers = 1, total_writes++ under stats_lock
SH_WStats(t) ==
    /\ uthr[t] = "sh_wstats"
    /\ sh' = [sh EXCEPT !.writers = 1, !.total_writes = @ + 1]
    /\ uthr' = UGoto(t, "sh_w_cs")
    /\ UNCHANGED kc_mutex
    /\ UNCHANGED nonShimVars

\* compat_shim.h rm_wunlock: writers = 0 under stats_lock
SH_WUnstats(t) ==
    /\ uthr[t] = "sh_w_cs"
    /\ sh' = [sh EXCEPT !.writers = 0]
    /\ uthr' = UGoto(t, "sh_wunlock")
    /\ UNCHANGED kc_mutex
    /\ UNCHANGED nonShimVars

\* compat_shim.h rm_wunlock: pthread_rwlock_unlock(&rm->rw_lock)
SH_WUnlock(t) ==
    /\ uthr[t] = "sh_wunlock"
    /\ sh' = [sh EXCEPT !.wr = THREAD_NULL]
    /\ uthr' = UGoto(t, "idle")
    /\ UNCHANGED kc_mutex
    /\ UNCHANGED nonShimVars

NextShim ==
    \E t \in Threads :
        \/ KC_RLockCall(t)
        \/ KC_RLock(t)
        \/ KC_RUnlock(t)
        \/ KC_WLockCall(t)
        \/ KC_WLock(t)
        \/ KC_WUnlock(t)
        \/ SH_RLockCall(t)
        \/ SH_RdLock(t)
        \/ SH_RStats(t)
        \/ SH_RUnstats(t)
        \/ SH_RUnlock(t)
        \/ SH_WLockCall(t)
        \/ SH_WrLock(t)
        \/ SH_WStats(t)
        \/ SH_WUnstats(t)
        \/ SH_WUnlock(t)

\* ------------------------------------------------------------------------
\* xnu_epoch_wait_preempt as a function of the epoch it is handed: the
\* value of epoch->active_readers is an input, and time is counted in
\* ticks since the call (start_time = 0, timeout = WaitTimeout)
\* ------------------------------------------------------------------------
\* xnu_epoch_alloc: epoch_number = 1; no call made yet
InitWait ==
    wt = [pc |-> "idle", active_readers |-> 0, epoch_number |-> 1,
          current_time |-> 0, wait_iterations |-> 0, reported |-> FALSE,
          calls |-> 0]

\* if (current_time > timeout)
wait_timed_out_early(current_time, timeout) == current_time >= timeout

wait_timed_out(current_time, timeout) == current_time > timeout

\* entry: start_time and timeout are taken, wait_iterations = 0
WaitCall(n) ==
    /\ wt.pc = "idle"
    /\ wt.calls < MaxWaitCalls
    /\ wt' = [wt EXCEPT !.pc = "loop", !.active_readers = n,
                        !.current_time = 0, !.wait_iterations = 0,
                        !.reported = FALSE, !.calls = @ + 1]
    /\ UNCHANGED nonWaitVars

\* one evaluation of the loop: test epoch->active_readers, read the clock
\* (d ticks later than the last reading), test the timeout, delay, count
WaitIterate(d) ==
    /\ wt.pc = "loop"
    /\ LET now == wt.current_time + d
       IN IF wt.active_readers > 0
          THEN IF wait_timed_out(now, WaitTimeout)
               THEN wt' = [wt EXCEPT !.pc = "advance", !.current_time = now,
                                     !.reported = TRUE]
               ELSE wt' = [wt EXCEPT !.current_time = now,
                                     !.wait_iterations = @ + 1]
          ELSE wt' = [wt EXCEPT !.pc = "advance"]
    /\ UNCHANGED nonWaitVars

\* epoch->epoch_number++ under epoch_lock, and return
WaitAdvance ==
    /\ wt.pc = "advance"
    /\ wt' = [wt EXCEPT !.pc = "idle", !.epoch_number = @ + 1]
    /\ UNCHANGED nonWaitVars

NextWait ==
    \/ \E n \in 0 .. MaxStaleReaders : WaitCall(n)
    \/ \E d \in 1 .. MaxTick : WaitIterate(d)
    \/ WaitAdvance

\* ------------------------------------------------------------------------
\* The epoch with its callback queue: enter / exit on a tracker, deferred
\* callbacks, reclamation, memory pressure and teardown
\* ------------------------------------------------------------------------
CallbackIds == 1 .. MaxCallbacks

\* xnu_epoch_config.max_callbacks, copied to epoch->memory.callback_limit
max_callbacks == 10000

\* the epoch as allocated: the fields of epoch_init and an empty queue;
\* scheduled: the reclaim thread call is pending
ep_init ==
    [epoch_number    |-> 1,
     active_readers  |-> 0,
     cpu_readers     |-> [c \in Cpus |-> 0],
     call_depth      |-> [c \in Cpus |-> 0],
     reclaim_pending |-> FALSE,
     scheduled       |-> FALSE,
     callback_queue  |-> <<>>,
     callback_count  |-> 0,
     callback_limit  |-> max_callbacks,
     memory_pressure |-> 0,
     freed           |-> FALSE,
     panicked        |-> FALSE]

\* a zero-filled tracker; depth: enter() calls of the worker not yet
\* matched by an exit()
et_init == [et_active |-> FALSE, et_cpu |-> 0, nesting |-> 0, depth |-> 0]

\* a callback nobody has passed to xnu_epoch_call yet; inside: the workers
\* that were in a read section when it was queued and have not left since
cb_init == [state |-> "none", runs |-> 0, by |-> "none", inside |-> {}]

InitEpoch ==
    /\ ectx = ep_init
    /\ et = [t \in Threads |-> et_init]
    /\ cbs = [i \in CallbackIds |-> cb_init]

\* the epoch is in use: not torn down, and the kernel has not panicked
EpochLive == ~ectx.freed /\ ~ectx.panicked

\* remaining_readers: the sum of cpu_states[i].active_readers over the CPUs
RECURSIVE SumReaders(_, _)
SumReaders(e, S) ==
    IF S = {} THEN 0
    ELSE LET c == CHOOSE x \in S : TRUE
         IN e.cpu_readers[c] + SumReaders(e, S \ {c})

remaining_readers(e) == SumReaders(e, Cpus)

\* entry->callback(entry->argument) for the entries of sequence run
RECURSIVE execute_callbacks(_, _, _)
execute_callbacks(cb, run, who) ==
    IF run = <<>> THEN cb
    ELSE execute_callbacks(
             [cb EXCEPT ![Head(run).id] =
                 [@ EXCEPT !.state = "done", !.runs = @ + 1, !.by = who]],
             Tail(run), who)

\* the test of xnu_epoch_emergency_reclaim: entry->flags & EPOCH_CB_FLAG_URGENT
emergency_selects_all(entry) == TRUE

emergency_selects(entry) == entry.urgent

\* xnu_epoch_emergency_reclaim: move the urgent entries out of the queue
\* and execute them at once; callback_count-- for each (an unsigned field:
\* a value below zero stands for the wrapped value 2^32 + n)
xnu_epoch_emergency_reclaim_in_place(e, cb) ==
    LET urgent == SelectSeq(e.callback_queue, emergency_selects)
    IN [ep  |-> [e EXCEPT !.callback_count = @ - Len(urgent)],
        cbs |-> execute_callbacks(cb, urgent, "emergency")]

xnu_epoch_emergency_reclaim(e, cb) ==
    LET urgent == SelectSeq(e.callback_queue, emergency_selects)
        rest   == SelectSeq(e.callback_queue,
                            LAMBDA entry : ~emergency_selects(entry))
    IN [ep  |-> [e EXCEPT !.callback_queue = rest,
                          !.callback_count = @ - Len(urgent)],
        cbs |-> execute_callbacks(cb, urgent, "emergency")]

\* callback_count > limit, for the unsigned callback_count
count_exceeds(n, limit) == n < 0 \/ n > limit

\* the pressure level xnu_epoch_check_memory_pressure derives
pressure_level(e) ==
    IF count_exceeds(e.callback_count, (e.callback_limit * 9) \div 10) THEN 3
    ELSE IF count_exceeds(e.callback_count, (e.callback_limit * 7) \div 10) THEN 2
    ELSE IF count_exceeds(e.callback_count, e.callback_limit \div 2) THEN 1
    ELSE 0

\* xnu_epoch_check_memory_pressure: set the level; at level 3 trigger the
\* emergency reclamation
xnu_epoch_check_memory_pressure(e, cb) ==
    LET level == pressure_level(e)
        e1 == [e EXCEPT !.memory_pressure = level]
    IN IF level = 3
       THEN xnu_epoch_emergency_reclaim(e1, cb)
       ELSE [ep |-> e1, cbs |-> cb]

\* a worker that has left its read section is inside for no queued callback
left_section(cb, t) ==
    [i \in CallbackIds |->
        IF cb[i].state = "queued" THEN [cb[i] EXCEPT !.inside = @ \ {t}]
        ELSE cb[i]]

\* xnu_epoch_enter_preempt(epoch, et) by worker t running on CPU c
E_Enter(t, c) ==
    /\ EpochLive
    /\ et[t].depth < MaxNesting
    /\ LET r == xnu_epoch_enter_preempt(ectx, et[t], c)
       IN /\ ectx' = r.epoch
          /\ et' = [et EXCEPT ![t] = [r.tr EXCEPT !.depth = @ + 1]]
    /\ UNCHANGED cbs
    /\ UNCHANGED nonEpochVars

\* xnu_epoch_exit_preempt(epoch, et) by worker t: panic on an inactive
\* tracker; else leave one level; when the last reader of all CPUs has
\* left and callbacks are queued, start the reclaim call; with memory
\* pressure, check it
E_Exit(t) ==
    /\ EpochLive
    /\ et[t].depth > 0
    /\ IF ~et[t].et_active
       THEN /\ ectx' = [ectx EXCEPT !.panicked = TRUE]
            /\ UNCHANGED <<et, cbs>>
       ELSE LET r  == xnu_epoch_exit_preempt(ectx, et[t])
                c  == et[t].et_cpu
                e1 == IF /\ et[t].nesting <= 1
                         /\ r.epoch.cpu_readers[c] = 0
                         /\ remaining_readers(r.epoch) = 0
                         /\ r.epoch.callback_queue # <<>>
                      THEN [r.epoch EXCEPT !.scheduled = TRUE]
                      ELSE r.epoch
                cb1 == IF et[t].depth = 1 THEN left_section(cbs, t) ELSE cbs
                m  == IF et[t].nesting <= 1 /\ e1.memory_pressure > 0
                      THEN xnu_epoch_check_memory_pressure(e1, cb1)
                      ELSE [ep |-> e1, cbs |-> cb1]
            IN /\ ectx' = m.ep
               /\ cbs' = m.cbs
               /\ et' = [et EXCEPT ![t] = [r.tr EXCEPT !.depth = @ - 1]]
    /\ UNCHANGED nonEpochVars

\* the readers inside a read section right now
ReadersInside == {t \in Threads : et[t].depth > 0}

\* target_epoch = epoch->epoch_number + 1, read under epoch_lock
next_epoch_current(e) == e.epoch_number

next_epoch(e) == e.epoch_number + 1

\* xnu_epoch_call(epoch, callback, arg) for callback i: the entry comes
\* from kalloc and its flags are never written, so the urgent bit is
\* whatever the memory held
E_Call(i, urgent) ==
    /\ EpochLive
    /\ cbs[i].state = "none"
    /\ \A j \in CallbackIds : j < i => cbs[j].state # "none"
    /\ LET target_epoch == next_epoch(ectx)
       IN ectx' = [ectx EXCEPT
                    !.epoch_number = target_epoch,
                    !.callback_queue = Append(@,
                        [id |-> i, target_epoch |-> target_epoch,
                         urgent |-> urgent]),
                    !.reclaim_pending = TRUE,
                    !.scheduled = IF ectx.reclaim_pending THEN @ ELSE TRUE]
    /\ cbs' = [cbs EXCEPT ![i] = [@ EXCEPT !.state = "queued",
                                           !.inside = ReadersInside]]
    /\ UNCHANGED et
    /\ UNCHANGED nonEpochVars

\* xnu_epoch_reclaim_callback, run by the reclaim thread call: put off
\* while epoch->active_readers > 0, else execute the entries whose target
\* epoch lies before the current epoch
E_Reclaim ==
    /\ EpochLive
    /\ ectx.scheduled
    /\ IF ectx.active_readers > 0
       THEN /\ ectx' = [ectx EXCEPT !.reclaim_pending = TRUE]
            /\ UNCHANGED cbs
       ELSE LET current_epoch == ectx.epoch_number
                completed == SelectSeq(ectx.callback_queue,
                    LAMBDA entry : entry.target_epoch < current_epoch)
                kept == SelectSeq(ectx.callback_queue,
                    LAMBDA entry : ~(entry.target_epoch < current_epoch))
            IN /\ ectx' = [ectx EXCEPT !.reclaim_pending = FALSE,
                                   !.scheduled = FALSE,
                                   !.callback_queue = kept]
               /\ cbs' = execute_callbacks(cbs, completed, "reclaim")
    /\ UNCHANGED et
    /\ UNCHANGED nonEpochVars

\* a call of xnu_epoch_check_memory_pressure(epoch)
E_CheckMemoryPressure ==
    /\ EpochLive
    /\ LET m == xnu_epoch_check_memory_pressure(ectx, cbs)
       IN ectx' = m.ep /\ cbs' = m.cbs
    /\ UNCHANGED et
    /\ UNCHANGED nonEpochVars

\* a call of xnu_epoch_emergency_reclaim(epoch)
E_EmergencyReclaim ==
    /\ EpochLive
    /\ LET m == xnu_epoch_emergency_reclaim(ectx, cbs)
       IN ectx' = m.ep /\ cbs' = m.cbs
    /\ UNCHANGED et
    /\ UNCHANGED nonEpochVars

\* the entries xnu_epoch_free executes: while (!queue_empty) remove_first
free_drains_head(q) == IF q = <<>> THEN q ELSE <<Head(q)>>

free_drains(q) == q

\* xnu_epoch_free(epoch), called when no worker uses the epoch any more:
\* cancel the reclaim call, execute every entry still queued, free
E_Free ==
    /\ EpochLive
    /\ ReadersInside = {}
    /\ LET drained == free_drains(ectx.callback_queue)
       IN /\ ectx' = [ectx EXCEPT
                       !.scheduled = FALSE,
                       !.callback_queue =
                           SubSeq(@, Len(drained) + 1, Len(@)),
                       !.freed = TRUE]
          /\ cbs' = execute_callbacks(cbs, drained, "free")
    /\ UNCHANGED et
    /\ UNCHANGED nonEpochVars

NextEpoch ==
    \/ \E t \in Threads, c \in Cpus : E_Enter(t, c)
    \/ \E t \in Threads : E_Exit(t)
    \/ \E i \in CallbackIds, u \in BOOLEAN : E_Call(i, u)
    \/ E_Reclaim
    \/ E_CheckMemoryPressure
    \/ E_EmergencyReclaim
    \/ E_Free

\* ------------------------------------------------------------------------
\* The concurrent stress test (test_radix_concurrent.c): writer threads
\* add routes to one table and reader threads match in it, the table's
\* rmlock being the one of compat_shim.h
\* ------------------------------------------------------------------------
\* the threads main starts as writers, and those it starts as readers
ConcWriters == {t \in Threads : t <= (NThreads + 1) \div 2}
ConcReaders == Threads \ ConcWriters

\* make_route_key(route_id): one network per route id
make_route_key(route_id) == userland_make_sockaddr_in(route_id % (AddrMax + 1))

\* make_netmask(): the mask of the networks' full prefix
make_netmask == userland_make_netmask(AddrBits)

\* a thread's stats as main zeroes them, and its position
conc_thread_init == [pc |-> "loop", operations |-> 0, successes |-> 0]

\* rn_inithead and rm_init_flags done, test_running = true, threads created
InitConc ==
    conc = [rnh     |-> <<>>,
            lock    |-> [wr |-> THREAD_NULL, rd |-> {}, readers |-> 0,
                         writers |-> 0],
            running |-> TRUE,
            thr     |-> [t \in Threads |-> conc_thread_init]]

\* writer_thread: loop test, key and nodes made, rnh_addaddr entered
CT_AddBegin(t) ==
    /\ t \in ConcWriters
    /\ conc.thr[t].pc = "loop"
    /\ conc' = [conc EXCEPT !.thr[t].pc =
                   IF conc.thr[t].operations < RoutesPerWriter /\ conc.running
                   THEN "in_add" ELSE "done"]
    /\ UNCHANGED nonConcVars

\* writer_thread: rnh_addaddr(key, mask, ...) returns; statistics
CT_AddEnd(t) ==
    /\ conc.thr[t].pc = "in_add"
    /\ LET route_id == (t - 1) * RoutesPerWriter + conc.thr[t].operations
       IN conc' = [conc EXCEPT
                     !.rnh = stub_addaddr(@, make_route_key(route_id),
                                          make_netmask),
                     !.thr[t] = [pc |-> "loop", operations |-> @.operations + 1,
                                 successes |-> @.successes + 1]]
    /\ UNCHANGED nonConcVars

\* reader_thread: loop tests, lookup key made, rnh_matchaddr entered
CT_MatchBegin(t) ==
    /\ t \in ConcReaders
    /\ conc.thr[t].pc = "loop"
    /\ conc' = [conc EXCEPT !.thr[t].pc =
                   IF conc.thr[t].operations < LookupsPerReader /\ conc.running
                   THEN "in_match"
                   ELSE IF conc.running THEN "loop" ELSE "done"]
    /\ UNCHANGED nonConcVars

\* reader_thread: rnh_matchaddr(lookup_key, ...) returns; statistics
CT_MatchEnd(t) ==
    /\ conc.thr[t].pc = "in_match"
    /\ LET route_id == (conc.thr[t].operations + (t - 1) * 1000)
                           % (Cardinality(ConcWriters) * RoutesPerWriter)
           found == stub_matchaddr(conc.rnh, make_route_key(route_id))
       IN conc' = [conc EXCEPT
                     !.thr[t] = [pc |-> "loop", operations |-> @.operations + 1,
                                 successes |-> IF found # 0
                                               THEN @.successes + 1
                                               ELSE @.successes]]
    /\ UNCHANGED nonConcVars

\* main: atomic_store(&test_running, false)
CT_Stop ==
    /\ conc.running
    /\ conc' = [conc EXCEPT !.running = FALSE]
    /\ UNCHANGED nonConcVars

NextConc ==
    \/ \E t \in Threads : CT_AddBegin(t)
    \/ \E t \in Threads : CT_AddEnd(t)
    \/ \E t \in Threads : CT_MatchBegin(t)
    \/ \E t \in Threads : CT_MatchEnd(t)
    \/ CT_Stop

\* ------------------------------------------------------------------------
\* The route library over the table: route_lib.c and lib/route_lib_stubs.c
\* implement the same interface (include/route_lib.h); a program links one
\* ------------------------------------------------------------------------
ROUTE_OK == 0
ROUTE_EINVAL == 0 - 1
ROUTE_ENOENT == 0 - 2
ROUTE_EEXIST == 0 - 3

Fibs == 0 .. (MaxTables - 1)
HeadIds == 1 .. MaxTables
NoHead == 0
Libs == {"route_lib", "route_lib_stubs"}

\* a walker, by what it returns on its first, second, ... invocation
WalkerRets == 0 .. MaxWalkerRet
Walkers == [1 .. MaxEntries -> WalkerRets]

\* the heap of radix_stub_head objects: free, or the entry list of a head
FreeHead == [alloc |-> FALSE, entries |-> <<>>]

\* rn_inithead: bsd_malloc hands out a head no live table owns, with
\* entries = NULL and count = 0; the result is the new head's address
rn_inithead_shared(heap) == 1

rn_inithead(heap) ==
    CHOOSE h \in HeadIds :
        /\ ~heap[h].alloc
        /\ \A g \in HeadIds : g < h => heap[g].alloc

\* rn_detachhead: every entry and the head itself are freed
rn_detachhead(heap, h) == [heap EXCEPT ![h] = FreeHead]

\* the netmask pointer route_add hands to rnh_addaddr: copy_sockaddr gives
\* NULL for a null ri_netmask, else a copy of it
copy_sockaddr(src) == src

\* the stored netmask of an entry, as a caller's argument: a null pointer
\* where the route was added without one
stored_netmask(e) == IF e.mask = ZeroSockaddr THEN NullPtr ELSE e.mask

\* rnh_walktree (stub_walktree) with visitor f, where f receives the number
\* of its own invocation: [calls: visitor invocations, result: the return]
RECURSIVE rnh_walktree_loop(_, _, _, _)
rnh_walktree_loop(list, i, f, calls) ==
    IF i > Len(list) THEN [calls |-> calls, result |-> 0]
    ELSE LET result == f[calls + 1]
         IN IF result # 0 THEN [calls |-> calls + 1, result |-> result]
            ELSE rnh_walktree_loop(list, i + 1, f, calls + 1)

rnh_walktree(list, f) == rnh_walktree_loop(list, 1, f, 0)

\* route_walk_callback (route_lib.c) and radix_walker_adapter
\* (lib/route_lib_stubs.c): each entry of the list is a route (no RNF_ROOT
\* node, key set), so each hands the entry to the walker and returns the
\* walker's value; route_walk_callback also counts it in ctx->count
route_walk_callback(walker) == walker

radix_walker_adapter(walker) == walker

\* route_walk of route_lib.c: the result of rnh_walktree is dropped and
\* ctx.count is returned
route_lib_route_walk(list, walker) ==
    LET w == rnh_walktree(list, route_walk_callback(walker))
    IN [calls |-> w.calls, ret |-> w.calls]

\* route_walk of lib/route_lib_stubs.c: returns the result of rnh_walktree
route_lib_stubs_route_walk(list, walker) ==
    LET w == rnh_walktree(list, radix_walker_adapter(walker))
    IN [calls |-> w.calls, ret |-> w.result]

route_walk(lib, list, walker) ==
    IF lib = "route_lib" THEN route_lib_route_walk(list, walker)
    ELSE route_lib_stubs_route_walk(list, walker)

\* route_delete of route_lib.c: rnh_deladdr with the caller's dst and netmask
route_lib_route_delete(list, dst, netmask) ==
    LET d == stub_deladdr(list, dst, netmask)
    IN [ret |-> IF d.ret = 0 THEN ROUTE_ENOENT ELSE ROUTE_OK, list |-> d.list]

\* route_delete of lib/route_lib_stubs.c: rnh_matchaddr(dst) finds a route,
\* and rnh_deladdr is called with that route's stored dst and netmask
route_lib_stubs_route_delete(list, dst, netmask) ==
    LET find_rn == stub_matchaddr(list, dst)
    IN IF find_rn = 0 THEN [ret |-> ROUTE_ENOENT, list |-> list]
       ELSE LET re == list[find_rn]
                d == stub_deladdr(list, re.dst, stored_netmask(re))
            IN [ret |-> IF d.ret = 0 THEN ROUTE_ENOENT ELSE ROUTE_OK,
                list |-> d.list]

route_delete(lib, list, dst, netmask) ==
    IF lib = "route_lib" THEN route_lib_route_delete(list, dst, netmask)
    ELSE route_lib_stubs_route_delete(list, dst, netmask)

\* route_lookup (both files): rnh_matchaddr; [ret, re: the index found]
route_lookup(list, dst) ==
    LET rn == stub_matchaddr(list, dst)
    IN [ret |-> IF rn = 0 THEN ROUTE_ENOENT ELSE ROUTE_OK, re |-> rn]

\* the list of table f; the empty list where f has no table
TableOf(r, f) == IF r.rib[f] = NoHead THEN <<>> ELSE r.heap[r.rib[f]].entries

\* the caller's notes on its last call; before an add or a delete it notes
\* the routes of every other table
rl_call(op, f, ret, calls, walker, n, others) ==
    [op |-> op, fib |-> f, ret |-> ret, calls |-> calls, walker |-> walker,
     n |-> n, others |-> others]

NoTables == [g \in Fibs |-> <<>>]

OtherTables(r, f) == [g \in Fibs |-> IF g = f THEN <<>> ELSE TableOf(r, g)]

NoWalker == [k \in 1 .. MaxEntries |-> 0]

InitRoute ==
    rl = [lib |-> "none",
          heap |-> [h \in HeadIds |-> FreeHead],
          rib |-> [f \in Fibs |-> NoHead],
          last |-> rl_call("none", 0, 0, 0, NoWalker, 0, NoTables)]

\* route_lib_init of the library the program is linked with
RL_LibInit(lib) ==
    /\ rl.lib = "none"
    /\ rl' = [rl EXCEPT !.lib = lib,
                        !.last = rl_call("init", 0, ROUTE_OK, 0, NoWalker, 0, NoTables)]
    /\ UNCHANGED nonRouteVars

\* route_table_create(AF_INET, f)
RL_Create(f) ==
    /\ rl.lib # "none"
    /\ rl.rib[f] = NoHead
    /\ LET h == rn_inithead(rl.heap)
       IN rl' = [rl EXCEPT !.heap[h] = [alloc |-> TRUE, entries |-> <<>>],
                           !.rib[f] = h,
                           !.last = rl_call("create", f, ROUTE_OK, 0, NoWalker, 0, NoTables)]
    /\ UNCHANGED nonRouteVars

\* route_table_destroy(rh)
RL_Destroy(f) ==
    /\ rl.lib # "none"
    /\ rl.rib[f] # NoHead
    /\ rl' = [rl EXCEPT !.heap = rn_detachhead(rl.heap, rl.rib[f]),
                        !.rib[f] = NoHead,
                        !.last = rl_call("destroy", f, ROUTE_OK, 0, NoWalker,
                                         Len(TableOf(rl, f)), NoTables)]
    /\ UNCHANGED nonRouteVars

\* route_add(rh, ri) with ri_dst = dst, ri_netmask = netmask; rh is a null
\* pointer where f has no table
RL_Add(f, dst, netmask) ==
    /\ rl.lib # "none"
    /\ Len(TableOf(rl, f)) < MaxEntries
    /\ IF rl.rib[f] = NoHead
       THEN rl' = [rl EXCEPT !.last = rl_call("add", f, ROUTE_EINVAL, 0,
                                              NoWalker, 0,
                                        OtherTables(rl, f))]
       ELSE LET h == rl.rib[f]
                list == rl.heap[h].entries
            IN rl' = [rl EXCEPT
                   !.heap[h].entries = stub_addaddr(list, dst, copy_sockaddr(netmask)),
                   !.last = rl_call("add", f, ROUTE_OK, 0, NoWalker, Len(list),
                                        OtherTables(rl, f))]
    /\ UNCHANGED nonRouteVars

\* route_add (any route) where rnh_addaddr finds no memory and returns NULL
RL_AddNoMem(f) ==
    /\ rl.lib # "none"
    /\ rl.rib[f] # NoHead
    /\ rl' = [rl EXCEPT !.last = rl_call("add", f, ROUTE_EEXIST, 0, NoWalker,
                                         Len(TableOf(rl, f)),
                                        OtherTables(rl, f))]
    /\ UNCHANGED nonRouteVars

\* route_delete(rh, dst, netmask)
RL_Delete(f, dst, netmask) ==
    /\ rl.lib # "none"
    /\ IF rl.rib[f] = NoHead
       THEN rl' = [rl EXCEPT !.last = rl_call("delete", f, ROUTE_EINVAL, 0,
                                              NoWalker, 0,
                                        OtherTables(rl, f))]
       ELSE LET h == rl.rib[f]
                list == rl.heap[h].entries
                d == route_delete(rl.lib, list, dst, netmask)
            IN rl' = [rl EXCEPT
                   !.heap[h].entries = d.list,
                   !.last = rl_call("delete", f, d.ret, 0, NoWalker, Len(list),
                                        OtherTables(rl, f))]
    /\ UNCHANGED nonRouteVars

\* route_lookup(rh, dst, &ri)
RL_Lookup(f, dst) ==
    /\ rl.lib # "none"
    /\ IF rl.rib[f] = NoHead
       THEN rl' = [rl EXCEPT !.last = rl_call("lookup", f, ROUTE_EINVAL, 0,
                                              NoWalker, 0, NoTables)]
       ELSE LET list == TableOf(rl, f)
            IN rl' = [rl EXCEPT !.last = rl_call("lookup", f,
                                                 route_lookup(list, dst).ret,
                                                 0, NoWalker, Len(list), NoTables)]
    /\ UNCHANGED nonRouteVars

\* route_walk(rh, walker, arg)
RL_Walk(f, walker) ==
    /\ rl.lib # "none"
    /\ IF rl.rib[f] = NoHead
       THEN rl' = [rl EXCEPT !.last = rl_call("walk", f,
                     IF rl.lib = "route_lib" THEN ROUTE_EINVAL ELSE 0 - 1,
                     0, walker, 0, NoTables)]
       ELSE LET list == TableOf(rl, f)
                w == route_walk(rl.lib, list, walker)
            IN rl' = [rl EXCEPT !.last = rl_call("walk", f, w.ret, w.calls,
                                                 walker, Len(list), NoTables)]
    /\ UNCHANGED nonRouteVars

NextRoute ==
    \/ \E lib \in Libs : RL_LibInit(lib)
    \/ \E f \in Fibs : RL_Create(f)
    \/ \E f \in Fibs : RL_Destroy(f)
    \/ \E f \in Fibs, a \in RouteArgs : RL_Add(f, a[1], a[2])
    \/ \E f \in Fibs : RL_AddNoMem(f)
    \/ \E f \in Fibs, d \in DstArgs, m \in MaskArgs : RL_Delete(f, d, m)
    \/ \E f \in Fibs, d \in DstArgs : RL_Lookup(f, d)
    \/ \E f \in Fibs, walker \in Walkers : RL_Walk(f, walker)

\* ------------------------------------------------------------------------
\* Priority boost: the wait loop of xnu_rm_wlock_advanced with its clock
\* (mach_absolute_time), the reader slots and xnu_rm_apply_priority_boost
\* ------------------------------------------------------------------------
BSlots == 1 .. BoostSlots
Clock == 0 .. MaxClock

\* rm->writer_threshold and rm->bias_threshold as xnu_rm_init_advanced sets
\* them, in ticks of the clock
writer_threshold == WriterThreshold
bias_threshold == BiasThreshold

\* struct xnu_reader_state of an empty slot (memset to zero)
reader_state_clear == [thread |-> THREAD_NULL, enter_time |-> 0,
                       priority_boost |-> FALSE]

bw_rm_init ==
    [waiting_writers |-> 0, current_readers |-> 0,
     active_readers |-> [i \in BSlots |-> reader_state_clear],
     stat_priority_boost |-> FALSE]

bw_writer_init ==
    [pc |-> "idle", start_time |-> 0, asleep |-> FALSE,
     checks |-> 0, wait_time |-> 0, unboosted |-> {}]

InitBoost == bw = [now |-> 0, rm |-> bw_rm_init, w |-> bw_writer_init]

OccupiedSlots(lock) == {i \in BSlots : lock.active_readers[i].thread # THREAD_NULL}

\* the readers xnu_rm_apply_priority_boost boosts at current_time
boost_due(reader, current_time) ==
    /\ reader.thread # THREAD_NULL
    /\ ~reader.priority_boost
    /\ current_time - reader.enter_time > bias_threshold

\* xnu_rm_apply_priority_boost
xnu_rm_apply_priority_boost(lock, current_time) ==
    [lock EXCEPT
        !.active_readers =
            [i \in BSlots |->
                IF boost_due(@[i], current_time)
                THEN [@[i] EXCEPT !.priority_boost = TRUE]
                ELSE @[i]],
        !.stat_priority_boost =
            @ \/ \E i \in BSlots :
                     boost_due(lock.active_readers[i], current_time)]

\* the timeout test of the wait loop
long_wait(wait_time) == wait_time > writer_threshold * 2

\* mach_absolute_time advances
BW_Tick ==
    /\ bw.now < MaxClock
    /\ bw' = [bw EXCEPT !.now = @ + 1]
    /\ UNCHANGED nonBoostVars

\* xnu_rm_track_reader by reader thread r: the first empty slot
BW_TrackReader(r) ==
    /\ \A i \in BSlots : bw.rm.active_readers[i].thread # r
    /\ BSlots \ OccupiedSlots(bw.rm) # {}
    /\ LET free == BSlots \ OccupiedSlots(bw.rm)
           s == CHOOSE i \in free : \A j \in free : i <= j
       IN bw' = [bw EXCEPT
              !.rm.active_readers[s] = [thread |-> r, enter_time |-> bw.now,
                                        priority_boost |-> FALSE],
              !.rm.current_readers = @ + 1]
    /\ UNCHANGED nonBoostVars

\* xnu_rm_untrack_reader by reader thread r: clear its slot; the last reader
\* out wakes the first waiting writer
BW_UntrackReader(r) ==
    /\ \E i \in BSlots : bw.rm.active_readers[i].thread = r
    /\ LET s == CHOOSE i \in BSlots : bw.rm.active_readers[i].thread = r
           wake == bw.rm.waiting_writers > 0 /\ bw.rm.current_readers - 1 = 0
       IN bw' = [bw EXCEPT
              !.rm.active_readers[s] = reader_state_clear,
              !.rm.current_readers = @ - 1,
              !.w.asleep = IF wake THEN FALSE ELSE @]
    /\ UNCHANGED nonBoostVars

\* xnu_rm_wlock_advanced(rm, fair_mode): start_time is taken, and the
\* writer joins the queue (xnu_rm_enqueue_writer) or goes for the lock
BW_Start(fair_mode) ==
    /\ bw.w.pc = "idle"
    /\ bw' = IF fair_mode \/ bw.rm.waiting_writers > 0
             THEN [bw EXCEPT !.w = [bw_writer_init EXCEPT
                                        !.pc = "w_check",
                                        !.start_time = bw.now],
                             !.rm.waiting_writers = @ + 1]
             ELSE [bw EXCEPT !.w = [bw_writer_init EXCEPT
                                        !.pc = "w_excl",
                                        !.start_time = bw.now]]
    /\ UNCHANGED nonBoostVars

\* while (rm->waiting_writers > 1 || rm->current_readers > 0)
BW_Check ==
    /\ bw.w.pc = "w_check"
    /\ bw' = [bw EXCEPT !.w.pc =
                 IF bw.rm.waiting_writers > 1 \/ bw.rm.current_readers > 0
                 THEN "w_assert" ELSE "w_dequeue"]
    /\ UNCHANGED nonBoostVars

\* assert_wait and thread_block: the writer sleeps
BW_Block ==
    /\ bw.w.pc = "w_assert"
    /\ bw' = [bw EXCEPT !.w.pc = "w_blocked", !.w.asleep = TRUE]
    /\ UNCHANGED nonBoostVars

\* xnu_rm_wunlock of the writer that held the lock: xnu_rm_wakeup_writers
\* wakes the first waiter of the queue
BW_WakeupWriters ==
    /\ bw.w.asleep
    /\ bw' = [bw EXCEPT !.w.asleep = FALSE]
    /\ UNCHANGED nonBoostVars

\* thread_block has returned: wait_time is computed and tested; the writer
\* notes the wait time and the readers left without a boost
BW_TimeoutCheck ==
    /\ bw.w.pc = "w_blocked"
    /\ ~bw.w.asleep
    /\ LET wait_time == bw.now - bw.w.start_time
           after == IF long_wait(wait_time)
                    THEN xnu_rm_apply_priority_boost(bw.rm, bw.now)
                    ELSE bw.rm
       IN bw' = [bw EXCEPT
              !.rm = after,
              !.w.pc = "w_check",
              !.w.checks = 1,
              !.w.wait_time = wait_time,
              !.w.unboosted = {i \in OccupiedSlots(after) :
                                  ~after.active_readers[i].priority_boost}]
    /\ UNCHANGED nonBoostVars

\* xnu_rm_dequeue_writer after the loop
BW_Dequeue ==
    /\ bw.w.pc = "w_dequeue"
    /\ bw' = [bw EXCEPT !.w.pc = "w_excl", !.rm.waiting_writers = @ - 1]
    /\ UNCHANGED nonBoostVars

\* lck_rw_lock_exclusive, the grace-period wait, the write section and
\* xnu_rm_wunlock
BW_LockAndUnlock ==
    /\ bw.w.pc = "w_excl"
    /\ bw' = [bw EXCEPT !.w = bw_writer_init]
    /\ UNCHANGED nonBoostVars

NextBoost ==
    \/ BW_Tick
    \/ \E r \in BSlots : BW_TrackReader(r)
    \/ \E r \in BSlots : BW_UntrackReader(r)
    \/ \E f \in BOOLEAN : BW_Start(f)
    \/ BW_Check
    \/ BW_Block
    \/ BW_WakeupWriters
    \/ BW_TimeoutCheck
    \/ BW_Dequeue
    \/ BW_LockAndUnlock

\* ------------------------------------------------------------------------
\* Grace-period detection: xnu_epoch_grace_period_worker and the functions
\* it calls (xnu_freebsd_radix.c), with readers entering and leaving
\* ------------------------------------------------------------------------
GP_STATE_IDLE == 0
GP_STATE_STARTED == 1
GP_STATE_WAITING == 2
GP_STATE_COMPLETED == 3

\* cpu_mask and completed_mask are uint32_t: the bit (1U << i) of CPU i, as a
\* bit position; a mask is the set of its bit positions
MaskWidth == 32
cpu_bit(c) == (c - 1) % MaskWidth

gp_cpu_init == [active_readers |-> 0, last_grace_period |-> 0]

gp_init ==
    [gp_number |-> 0,
     gp_state |-> GP_STATE_IDLE,
     cpu_mask |-> {},
     completed_mask |-> {},
     cpu_states |-> [c \in Cpus |-> gp_cpu_init],
     worker |-> "out",
     callback_queue |-> 0,
     reclaim_call |-> FALSE,
     memory |-> [callback_count |-> 0, callback_limit |-> GpCallbackLimit,
                 memory_pressure |-> 0],
     emergency_reclaim |-> FALSE,
     pressure_checked |-> FALSE,
     start_active |-> {},
     quiet |-> {}]

InitGp == gp = gp_init

\* the CPUs with active readers, as xnu_epoch_start_grace_period finds them
ActiveCpus(g) == {c \in Cpus : g.cpu_states[c].active_readers > 0}

\* the state xnu_epoch_start_grace_period leaves behind
gp_after_start_idle(active_cpus) ==
    IF active_cpus = 0 THEN GP_STATE_IDLE ELSE GP_STATE_WAITING

gp_after_start(active_cpus) ==
    IF active_cpus = 0 THEN GP_STATE_COMPLETED ELSE GP_STATE_WAITING

\* the test of xnu_epoch_check_grace_period on one CPU's state
cpu_completed_always(cpu_state, gp_number) == TRUE

cpu_completed(cpu_state, gp_number) ==
    \/ cpu_state.active_readers = 0
    \/ cpu_state.last_grace_period >= gp_number

\* xnu_epoch_check_grace_period: [g: the epoch after it, done: its result]
xnu_epoch_check_grace_period(g) ==
    IF g.gp_state # GP_STATE_WAITING THEN [g |-> g, done |-> FALSE]
    ELSE LET remaining_mask == g.cpu_mask \ g.completed_mask
             reported == {cpu_bit(c) : c \in
                             {c \in Cpus :
                                 /\ cpu_bit(c) \in remaining_mask
                                 /\ cpu_completed(g.cpu_states[c], g.gp_number)}}
             after == [g EXCEPT !.completed_mask = @ \cup reported]
         IN [g |-> after,
             done |-> after.cpu_mask \ after.completed_mask = {}]

\* xnu_epoch_complete_grace_period
xnu_epoch_complete_grace_period(g) ==
    [g EXCEPT !.gp_state = GP_STATE_COMPLETED,
              !.cpu_states = [c \in Cpus |->
                  [@[c] EXCEPT !.last_grace_period = g.gp_number]]]

\* the high-water mark of xnu_epoch_check_memory_pressure: 90% of the limit
high_water(limit) == (limit * 9) \div 10

\* xnu_epoch_check_memory_pressure on the epoch of the state machine: the
\* level from memory.callback_count, and the emergency reclamation at level 3
gp_check_memory_pressure(g) ==
    LET level == pressure_level(g.memory)
    IN [g EXCEPT !.memory.memory_pressure = level,
                 !.pressure_checked = TRUE,
                 !.emergency_reclaim = @ \/ level = 3]

\* xnu_epoch_enter_preempt of an outermost reader on CPU c
GP_ReaderEnter(c) ==
    /\ gp.cpu_states[c].active_readers < MaxNesting
    /\ gp' = [gp EXCEPT !.cpu_states[c].active_readers = @ + 1]
    /\ UNCHANGED nonGpVars

\* xnu_epoch_exit_preempt of an outermost reader that entered on CPU c: the
\* counter drops; with no reader left anywhere and callbacks queued the
\* reclamation is scheduled; memory pressure is checked if it is above 0
GP_ReaderExit(c) ==
    /\ gp.cpu_states[c].active_readers > 0
    /\ LET g1 == [gp EXCEPT !.cpu_states[c].active_readers = @ - 1,
                           !.quiet = IF gp.cpu_states[c].active_readers = 1
                                     THEN @ \cup {c} ELSE @]
           g2 == IF ActiveCpus(g1) = {} /\ g1.callback_queue > 0
                 THEN [g1 EXCEPT !.reclaim_call = TRUE] ELSE g1
       IN gp' = IF g2.memory.memory_pressure > 0
                THEN gp_check_memory_pressure(g2) ELSE g2
    /\ UNCHANGED nonGpVars

\* xnu_epoch_call: one more callback in the queue (memory.callback_count is
\* not touched)
GP_Call ==
    /\ gp.callback_queue < MaxCallbacks
    /\ gp' = [gp EXCEPT !.callback_queue = @ + 1]
    /\ UNCHANGED nonGpVars

\* xnu_epoch_reclaim_callback, fired by reclaim_call: with no reader active
\* the queued callbacks run
GP_Reclaim ==
    /\ gp.reclaim_call
    /\ gp' = [gp EXCEPT !.reclaim_call = FALSE,
                        !.callback_queue = IF ActiveCpus(gp) = {} THEN 0 ELSE @]
    /\ UNCHANGED nonGpVars

\* the worker fires in GP_STATE_IDLE: with callbacks queued it calls
\* xnu_epoch_start_grace_period, which first sets gp_number and
\* GP_STATE_STARTED
GP_WorkerIdle ==
    /\ gp.worker = "out"
    /\ gp.gp_state = GP_STATE_IDLE
    /\ gp.gp_number < MaxGracePeriods
    /\ gp' = IF gp.callback_queue > 0
             THEN [gp EXCEPT !.gp_number = @ + 1,
                             !.gp_state = GP_STATE_STARTED,
                             !.worker = "in_start",
                             !.pressure_checked = FALSE,
                             !.emergency_reclaim = FALSE]
             ELSE gp
    /\ UNCHANGED nonGpVars

\* xnu_epoch_start_grace_period, the rest: the masks are built from the
\* per-CPU reader counts and the state becomes WAITING or COMPLETED
GP_StartMasks ==
    /\ gp.worker = "in_start"
    /\ LET active == ActiveCpus(gp)
       IN gp' = [gp EXCEPT
              !.cpu_mask = {cpu_bit(c) : c \in active},
              !.completed_mask = {cpu_bit(c) : c \in Cpus \ active},
              !.gp_state = gp_after_start(Cardinality(active)),
              !.worker = "out",
              !.start_active = active,
              !.quiet = Cpus \ active]
    /\ UNCHANGED nonGpVars

\* the worker fires in GP_STATE_STARTED or GP_STATE_WAITING
GP_WorkerCheck ==
    /\ gp.worker = "out"
    /\ gp.gp_state \in {GP_STATE_STARTED, GP_STATE_WAITING}
    /\ LET r == xnu_epoch_check_grace_period(gp)
       IN gp' = IF r.done THEN xnu_epoch_complete_grace_period(r.g) ELSE r.g
    /\ UNCHANGED nonGpVars

\* the worker fires in GP_STATE_COMPLETED: back to idle, and the
\* reclamation is triggered
GP_WorkerCompleted ==
    /\ gp.worker = "out"
    /\ gp.gp_state = GP_STATE_COMPLETED
    /\ gp' = [gp EXCEPT !.gp_state = GP_STATE_IDLE, !.reclaim_call = TRUE]
    /\ UNCHANGED nonGpVars

NextGp ==
    \/ \E c \in Cpus : GP_ReaderEnter(c)
    \/ \E c \in Cpus : GP_ReaderExit(c)
    \/ GP_Call
    \/ GP_Reclaim
    \/ GP_WorkerIdle
    \/ GP_StartMasks
    \/ GP_WorkerCheck
    \/ GP_WorkerCompleted

\* ------------------------------------------------------------------------
\* One table of lib/route_lib_stubs.c called by several threads: each call
\* takes the table's lock (struct rmlock of compat_shim.h), runs its body
\* and releases the lock; route_change is a route_delete call followed by
\* a route_add call
\* ------------------------------------------------------------------------
ROUTE_ENOMEM == 0 - 4

\* a thread's record: its position, the function it is in (op), the
\* route_change that called that function (outer), the arguments, the
\* value being returned, and the call that returned last (done)
rc_idle(done, ret) ==
    [pc |-> "idle", op |-> "none", outer |-> "none", dst |-> NullPtr,
     mask |-> NullPtr, ret |-> ret, done |-> done]

rc_enter(pc, op, outer, dst, mask) ==
    [pc |-> pc, op |-> op, outer |-> outer, dst |-> dst, mask |-> mask,
     ret |-> ROUTE_OK, done |-> "none"]

\* rm_init_flags: the read-write lock is free
InitRc ==
    rc = [entries |-> <<>>,
          lock |-> [wr |-> THREAD_NULL, rd |-> {}],
          thr |-> [t \in Threads |-> rc_idle("none", ROUTE_OK)],
          calls |-> 0]

\* compat_shim.h rm_wlock / rm_wunlock / rm_rlock / rm_runlock by thread t,
\* as changes of the pthread read-write lock
rm_wlock(lock, t) == [lock EXCEPT !.wr = t]

rm_wunlock(lock, t) == [lock EXCEPT !.wr = THREAD_NULL]

rm_rlock(lock, t) == [lock EXCEPT !.rd = @ \cup {t}]

rm_runlock(lock, t) == [lock EXCEPT !.rd = @ \ {t}]

\* where a function goes once its body has fixed the return value: every
\* return path of route_add and route_delete calls rm_wunlock first, every
\* return path of route_lookup and route_walk calls rm_runlock first
exit_path_early_return(op, ret) ==
    IF ret # ROUTE_OK THEN "return"
    ELSE IF op \in {"add", "delete"} THEN "wunlock" ELSE "runlock"

exit_path(op, ret) ==
    IF op \in {"add", "delete"} THEN "wunlock" ELSE "runlock"

\* route_change after its route_delete call has returned result: it calls
\* route_add only if result == 0
change_calls_add(outer, op, result) ==
    outer = "change" /\ op = "delete" /\ result = ROUTE_OK

\* route_add(rh, ri) is called
RC_CallAdd(t, dst, mask) ==
    /\ rc.thr[t].pc = "idle"
    /\ rc.calls < MaxRouteCalls
    /\ rc' = [rc EXCEPT !.calls = @ + 1,
                        !.thr[t] = rc_enter("wlock", "add", "none", dst, mask)]
    /\ UNCHANGED nonRcVars

\* route_delete(rh, dst, netmask) is called
RC_CallDelete(t, dst, mask) ==
    /\ rc.thr[t].pc = "idle"
    /\ rc.calls < MaxRouteCalls
    /\ rc' = [rc EXCEPT !.calls = @ + 1,
                        !.thr[t] = rc_enter("wlock", "delete", "none", dst, mask)]
    /\ UNCHANGED nonRcVars

\* route_lookup(rh, dst, &ri) is called
RC_CallLookup(t, dst) ==
    /\ rc.thr[t].pc = "idle"
    /\ rc.calls < MaxRouteCalls
    /\ rc' = [rc EXCEPT !.calls = @ + 1,
                        !.thr[t] = rc_enter("rlock", "lookup", "none", dst, NullPtr)]
    /\ UNCHANGED nonRcVars

\* route_walk(rh, walker, arg) is called
RC_CallWalk(t) ==
    /\ rc.thr[t].pc = "idle"
    /\ rc.calls < MaxRouteCalls
    /\ rc' = [rc EXCEPT !.calls = @ + 1,
                        !.thr[t] = rc_enter("rlock", "walk", "none", NullPtr, NullPtr)]
    /\ UNCHANGED nonRcVars

\* route_change(rh, ri) is called: it calls route_delete(rh, ri_dst,
\* ri_netmask) first
RC_CallChange(t, dst, mask) ==
    /\ rc.thr[t].pc = "idle"
    /\ rc.calls < MaxRouteCalls
    /\ rc' = [rc EXCEPT !.calls = @ + 1,
                        !.thr[t] = rc_enter("wlock", "delete", "change", dst, mask)]
    /\ UNCHANGED nonRcVars

\* rm_wlock(&rh->lock) returns
RC_WLock(t) ==
    /\ rc.thr[t].pc = "wlock"
    /\ pthread_rwlock_wr_free(rc.lock)
    /\ rc' = [rc EXCEPT !.lock = rm_wlock(rc.lock, t), !.thr[t].pc = "body"]
    /\ UNCHANGED nonRcVars

\* rm_rlock(&rh->lock, &tracker) returns
RC_RLock(t) ==
    /\ rc.thr[t].pc = "rlock"
    /\ pthread_rwlock_rd_free(rc.lock)
    /\ rc' = [rc EXCEPT !.lock = rm_rlock(rc.lock, t), !.thr[t].pc = "body"]
    /\ UNCHANGED nonRcVars

\* route_add between rm_wlock and its rm_wunlock: the entry is allocated,
\* filled and handed to rnh_addaddr, which stores it
RC_AddBody(t) ==
    /\ rc.thr[t].pc = "body"
    /\ rc.thr[t].op = "add"
    /\ Len(rc.entries) < MaxEntries
    /\ rc' = [rc EXCEPT
           !.entries = stub_addaddr(rc.entries, rc.thr[t].dst,
                                    copy_sockaddr(rc.thr[t].mask)),
           !.thr[t].ret = ROUTE_OK,
           !.thr[t].pc = exit_path("add", ROUTE_OK)]
    /\ UNCHANGED nonRcVars

\* route_add where bsd_malloc returns NULL for the route entry
\* (ROUTE_ENOMEM) or rnh_addaddr returns NULL (ROUTE_EEXIST)
RC_AddFail(t, ret) ==
    /\ rc.thr[t].pc = "body"
    /\ rc.thr[t].op = "add"
    /\ rc' = [rc EXCEPT !.thr[t].ret = ret,
                        !.thr[t].pc = exit_path("add", ret)]
    /\ UNCHANGED nonRcVars

\* route_delete between rm_wlock and its rm_wunlock
RC_DeleteBody(t) ==
    /\ rc.thr[t].pc = "body"
    /\ rc.thr[t].op = "delete"
    /\ LET d == route_lib_stubs_route_delete(rc.entries, rc.thr[t].dst,
                                             rc.thr[t].mask)
       IN rc' = [rc EXCEPT !.entries = d.list,
                           !.thr[t].ret = d.ret,
                           !.thr[t].pc = exit_path("delete", d.ret)]
    /\ UNCHANGED nonRcVars

\* route_lookup between rm_rlock and its rm_runlock
RC_LookupBody(t) ==
    /\ rc.thr[t].pc = "body"
    /\ rc.thr[t].op = "lookup"
    /\ LET ret == route_lookup(rc.entries, rc.thr[t].dst).ret
       IN rc' = [rc EXCEPT !.thr[t].ret = ret,
                           !.thr[t].pc = exit_path("lookup", ret)]
    /\ UNCHANGED nonRcVars

\* route_walk between rm_rlock and its rm_runlock
RC_WalkBody(t, walker) ==
    /\ rc.thr[t].pc = "body"
    /\ rc.thr[t].op = "walk"
    /\ LET ret == route_lib_stubs_route_walk(rc.entries, walker).ret
       IN rc' = [rc EXCEPT !.thr[t].ret = ret,
                           !.thr[t].pc = exit_path("walk", ret)]
    /\ UNCHANGED nonRcVars

\* rm_wunlock(&rh->lock)
RC_WUnlock(t) ==
    /\ rc.thr[t].pc = "wunlock"
    /\ rc' = [rc EXCEPT !.lock = rm_wunlock(rc.lock, t),
                        !.thr[t].pc = "return"]
    /\ UNCHANGED nonRcVars

\* rm_runlock(&rh->lock, &tracker)
RC_RUnlock(t) ==
    /\ rc.thr[t].pc = "runlock"
    /\ rc' = [rc EXCEPT !.lock = rm_runlock(rc.lock, t),
                        !.thr[t].pc = "return"]
    /\ UNCHANGED nonRcVars

\* the function returns: to the caller, or to route_change, which calls
\* route_add after a successful route_delete and returns the result of
\* the last call it made
RC_Return(t) ==
    /\ rc.thr[t].pc = "return"
    /\ LET r == rc.thr[t]
       IN IF change_calls_add(r.outer, r.op, r.ret)
          THEN rc' = [rc EXCEPT !.thr[t] =
                          rc_enter("wlock", "add", "change", r.dst, r.mask)]
          ELSE rc' = [rc EXCEPT !.thr[t] =
                          rc_idle(IF r.outer = "change" THEN "change" ELSE r.op,
                                  r.ret)]
    /\ UNCHANGED nonRcVars

NextRc ==
    \/ \E t \in Threads, a \in RouteArgs : RC_CallAdd(t, a[1], a[2])
    \/ \E t \in Threads, d \in DstArgs, m \in MaskArgs : RC_CallDelete(t, d, m)
    \/ \E t \in Threads, d \in DstArgs : RC_CallLookup(t, d)
    \/ \E t \in Threads : RC_CallWalk(t)
    \/ \E t \in Threads, a \in RouteArgs : RC_CallChange(t, a[1], a[2])
    \/ \E t \in Threads : RC_WLock(t)
    \/ \E t \in Threads : RC_RLock(t)
    \/ \E t \in Threads : RC_AddBody(t)
    \/ \E t \in Threads, ret \in {ROUTE_ENOMEM, ROUTE_EEXIST} : RC_AddFail(t, ret)
    \/ \E t \in Threads : RC_DeleteBody(t)
    \/ \E t \in Threads : RC_LookupBody(t)
    \/ \E t \in Threads, walker \in Walkers : RC_WalkBody(t, walker)
    \/ \E t \in Threads : RC_WUnlock(t)
    \/ \E t \in Threads : RC_RUnlock(t)
    \/ \E t \in Threads : RC_Return(t)

\* ------------------------------------------------------------------------
\* xnu_rm_try_wlock (xnu_rmlock_advanced.c), step by step, on the lock of
\* the read and write paths above
\* ------------------------------------------------------------------------
TryPcs == {"t_readers", "t_trylock", "t_epoch", "t_setwriter"}

\* calls of xnu_rm_try_wlock in progress
TriesBegun == Cardinality({t \in Threads : thr[t].pc \in TryPcs})

\* lck_rw_try_lock_exclusive: takes the lock if nobody holds it, and says
\* whether it did
lck_rw_try_lock_exclusive(lock, t) ==
    IF lck_rw_exclusive_free(lock)
    THEN [ok |-> TRUE, lock |-> [lock EXCEPT !.excl = t]]
    ELSE [ok |-> FALSE, lock |-> lock]

\* total_epoch_readers: the sum of cpu_states[i].active_readers
total_epoch_readers(e) == SumReaders(e, Cpus)

\* the way out when epoch readers are still active:
\* lck_rw_unlock_exclusive(rm->rw_lock) before return false
try_wlock_back_out_locked(lock) == lock

try_wlock_back_out(lock) == [lock EXCEPT !.excl = THREAD_NULL]

\* xnu_rm_try_wlock(rm) is called
T_Start(t) ==
    /\ thr[t].pc = "idle"
    /\ WritesBegun + TriesBegun < MaxWrites
    /\ thr' = Goto(t, "t_readers")
    /\ UNCHANGED <<rm, rw, epoch, shared_counter, writes_done>>
    /\ UNCHANGED nonLockVars

\* if (rm->current_readers > 0) return false
T_CheckReaders(t) ==
    /\ thr[t].pc = "t_readers"
    /\ thr' = Goto(t, IF rm.current_readers > 0 THEN "t_false" ELSE "t_trylock")
    /\ UNCHANGED <<rm, rw, epoch, shared_counter, writes_done>>
    /\ UNCHANGED nonLockVars

\* if (!lck_rw_try_lock_exclusive(rm->rw_lock)) return false
T_TryLock(t) ==
    /\ thr[t].pc = "t_trylock"
    /\ LET r == lck_rw_try_lock_exclusive(rw, t)
       IN /\ rw' = r.lock
          /\ thr' = Goto(t, IF r.ok THEN "t_epoch" ELSE "t_false")
    /\ UNCHANGED <<rm, epoch, shared_counter, writes_done>>
    /\ UNCHANGED nonLockVars

\* the epoch readers are summed under epoch_lock; if any is active the
\* exclusive lock is given back and the call returns false
T_EpochCheck(t) ==
    /\ thr[t].pc = "t_epoch"
    /\ IF total_epoch_readers(epoch) > 0
       THEN /\ rw' = try_wlock_back_out(rw)
            /\ thr' = Goto(t, "t_false")
       ELSE /\ rw' = rw
            /\ thr' = Goto(t, "t_setwriter")
    /\ UNCHANGED <<rm, epoch, shared_counter, writes_done>>
    /\ UNCHANGED nonLockVars

\* rm->current_writer = current_thread(), under writer_lock
T_SetWriter(t) ==
    /\ thr[t].pc = "t_setwriter"
    /\ rm' = [rm EXCEPT !.current_writer = t]
    /\ thr' = Goto(t, "t_true")
    /\ UNCHANGED <<rw, epoch, shared_counter, writes_done>>
    /\ UNCHANGED nonLockVars

\* return true: the caller goes on to its write section
T_ReturnTrue(t) ==
    /\ thr[t].pc = "t_true"
    /\ thr' = Goto(t, "w_cs")
    /\ UNCHANGED <<rm, rw, epoch, shared_counter, writes_done>>
    /\ UNCHANGED nonLockVars

\* return false: the caller goes on without the lock
T_ReturnFalse(t) ==
    /\ thr[t].pc = "t_false"
    /\ thr' = Goto(t, "idle")
    /\ UNCHANGED <<rm, rw, epoch, shared_counter, writes_done>>
    /\ UNCHANGED nonLockVars

\* the steps of a call of xnu_rm_try_wlock up to its return
TryStep(t) ==
    \/ T_CheckReaders(t)
    \/ T_TryLock(t)
    \/ T_EpochCheck(t)
    \/ T_SetWriter(t)

NextTry ==
    \/ NextLock
    \/ \E t \in Threads : T_Start(t)
    \/ \E t \in Threads : T_CheckReaders(t)
    \/ \E t \in Threads : T_TryLock(t)
    \/ \E t \in Threads : T_EpochCheck(t)
    \/ \E t \in Threads : T_SetWriter(t)
    \/ \E t \in Threads : T_ReturnTrue(t)
    \/ \E t \in Threads : T_ReturnFalse(t)

\* ------------------------------------------------------------------------
\* Specifications
\* ------------------------------------------------------------------------
Init == InitTable /\ InitLock /\ InitShim /\ InitWait /\ InitEpoch /\ InitConc /\ InitRoute /\ InitBoost /\ InitGp /\ InitRc

SpecTrie == Init /\ [][NextTrie]_vars

SpecLock == Init /\ [][NextLock]_vars

\* the steps of thread t inside a lock or unlock call it has begun, and
\* inside its read or write section: everything but the decision to call
LockStep(t) ==
    \/ \E c \in Cpus : R_EpochEnter(t, c)
    \/ R_Track(t)
    \/ R_Fallback(t)
    \/ R_SlowLock(t)
    \/ \E late \in BOOLEAN : R_StarveCheck(t, late)
    \/ R_Unlock(t)
    \/ R_Untrack(t)
    \/ R_EpochExit(t)
    \/ W_Enqueue(t)
    \/ W_Check(t)
    \/ W_AssertWait(t)
    \/ W_Block(t)
    \/ W_Dequeue(t)
    \/ W_Exclusive(t)
    \/ \E o \in BOOLEAN : W_EpochWait(t, o)
    \/ W_SetWriter(t)
    \/ W_Read(t)
    \/ W_Write(t)
    \/ W_ClearWriter(t)
    \/ W_Release(t)
    \/ W_Wakeup(t)

\* every thread that is inside a call or a section keeps being scheduled,
\* so every holder eventually releases; the kernel's read-write lock
\* grants a request that can be granted again and again; no thread is
\* obliged to call
SpecLockFair ==
    /\ Init
    /\ [][NextLock]_vars
    /\ \A t \in Threads : /\ WF_vars(LockStep(t))
                          /\ SF_vars(W_Exclusive(t))
                          /\ SF_vars(R_SlowLock(t))

SpecShim == Init /\ [][NextShim]_vars

\* the thread that runs the wait loop keeps running
SpecWait == Init /\ [][NextWait]_vars /\ WF_vars(NextWait)

SpecEpoch == Init /\ [][NextEpoch]_vars

\* the reclaim thread call runs once it has been entered, and every reader
\* inside a read section eventually exits; nobody is obliged to queue a
\* callback, to check the memory pressure or to tear the epoch down
SpecEpochFair ==
    /\ Init
    /\ [][NextEpoch]_vars
    /\ WF_vars(E_Reclaim)
    /\ \A t \in Threads : WF_vars(E_Exit(t))

SpecConc == Init /\ [][NextConc]_vars

SpecRoute == Init /\ [][NextRoute]_vars

SpecBoost == Init /\ [][NextBoost]_vars

SpecGp == Init /\ [][NextGp]_vars

SpecRc == Init /\ [][NextRc]_vars

SpecTry == Init /\ [][NextTry]_vars

Next == NextTrie \/ NextLock \/ NextShim \/ NextWait \/ NextEpoch \/ NextConc \/ NextRoute \/ NextBoost \/ NextGp \/ NextRc \/ NextTry

Spec == Init /\ [][Next]_vars

\* ------------------------------------------------------------------------
\* Properties of the lock (checked under SpecLock)
\* ------------------------------------------------------------------------
\* thread t is between the return of xnu_rm_wlock and its xnu_rm_wunlock
InWriteSection(t) == thr[t].pc \in {"w_cs", "w_cs2", "w_unlock"}

\* thread t is between the return of xnu_rm_rlock and its xnu_rm_runlock
InReadSection(t) == thr[t].pc = "r_cs"

\* C1: at most one thread is between the return of the write lock and its
\* matching write unlock, and no update made under the write lock is lost:
\* the datum the writers increment equals the number of completed write
\* sections.
C1_WritersNeverOverlap ==
    /\ \A t, u \in Threads : InWriteSection(t) /\ InWriteSection(u) => t = u
    /\ shared_counter = writes_done

\* C1's case: a writer has completed its update and still holds the lock
\* while another writer is waiting in lck_rw_lock_exclusive
C1_Witness ==
    \E t, u \in Threads :
        /\ t # u
        /\ thr[t].pc = "w_unlock"
        /\ thr[u].pc = "w_excl"
        /\ shared_counter >= 1

\* C2: no reader is inside its read section while a writer is inside its
\* write section.
C2_NoReaderDuringWrite ==
    \A t, u \in Threads : ~(InReadSection(t) /\ InWriteSection(u))

\* ------------------------------------------------------------------------
\* Properties of the table (checked under SpecTrie)
\* ------------------------------------------------------------------------
\* the netmask a stored entry stands for: an entry added with a null mask is
\* a host route (all bits set)
EntryMaskBits(e) == IF e.mask = ZeroSockaddr THEN AddrMax ELSE e.mask.s_addr

\* the stored prefix e contains the address q
Contains(e, q) ==
    BitAnd(q.s_addr, EntryMaskBits(e)) = BitAnd(e.dst.s_addr, EntryMaskBits(e))

\* the stored entry e has exactly this key and this mask argument
IsPair(e, dst, mask) ==
    /\ e.dst = dst
    /\ IF mask = NullPtr THEN e.mask = ZeroSockaddr ELSE e.mask = mask

\* indices of the entries of list that contain q
Covering(list, q) == {i \in 1 .. Len(list) : Contains(list[i], q)}

\* C3: match_addr(q) returns a stored prefix of maximal mask length among
\* those that contain q, and returns null exactly when none contains q.
C3_LongestPrefixMatch ==
    last.op = "match" =>
        LET C == Covering(last.pre, last.dst)
        IN /\ (last.ret = 0) <=> (C = {})
           /\ last.ret # 0 =>
                /\ last.ret \in C
                /\ \A j \in C : EntryMaskBits(last.pre[j])
                                  <= EntryMaskBits(last.pre[last.ret])

\* C4: no two stored entries have the same (key, mask), and an insert of a
\* pair that is already stored returns null and leaves the list unchanged.
C4_NoDuplicatePairs ==
    /\ \A i, j \in 1 .. Len(entries) : i # j => entries[i] # entries[j]
    /\ (last.op = "add" /\ last.wasLive) =>
            (last.ret = 0 /\ entries = last.pre)

\* the list without its i-th entry
Without(list, i) == SubSeq(list, 1, i - 1) \o SubSeq(list, i + 1, Len(list))

\* number of entries of list that hold this (key, mask) pair
Stored(list, dst, mask) ==
    Cardinality({i \in 1 .. Len(list) : IsPair(list[i], dst, mask)})

\* C5: a delete of a pair that was inserted and not yet deleted succeeds,
\* whatever the order of the deletes, and once every inserted pair has been
\* deleted the table is empty: a walk visits no leaf.
C5_DeleteAllLeavesEmpty ==
    /\ (last.op = "del" /\ last.wasLive) => last.ret # 0
    /\ liveCount = 0 => entries = <<>>
    /\ (last.op = "walk" /\ liveCount = 0) => last.visited = <<>>

\* C5's case: at least two pairs were inserted, they were deleted in an
\* order other than last-in-first-out, none is left and a walk has run
C5_Witness ==
    /\ last.op = "walk"
    /\ last.visited = <<>>
    /\ liveCount = 0
    /\ lastMut.outOfOrder

\* C6: delete removes an entry only if its key and its mask both equal the
\* arguments, and removes nothing else; when no entry has that key and that
\* mask it returns null and the list is unchanged.
C6_DeleteExactOnly ==
    last.op = "del" =>
        IF last.ret # 0
        THEN /\ IsPair(last.pre[last.ret], last.dst, last.mask)
             /\ entries = Without(last.pre, last.ret)
        ELSE /\ Stored(last.pre, last.dst, last.mask) = 0
             /\ entries = last.pre

\* C6's case: a delete whose key is stored, but under another mask, has
\* returned null
C6_Witness ==
    /\ last.op = "del"
    /\ last.ret = 0
    /\ \E i \in 1 .. Len(last.pre) : last.pre[i].dst = last.dst
    /\ entries = last.pre
    /\ entries # <<>>

\* C7: after a successful insert followed by a successful delete of the
\* same (key, mask), exact lookup of the pair returns null, and match_addr
\* of an address inside the prefix returns null when no stored prefix
\* covers the address.
C7_InsertDeleteThenAbsent ==
    lastMut.kind = "addDel" =>
        /\ (last.op = "lookup" /\ <<last.dst, last.mask>> = lastMut.pair)
                => last.ret = 0
        /\ (/\ last.op = "match"
            /\ Contains(new_stub_entry(lastMut.pair[1], lastMut.pair[2]),
                        last.dst)
            /\ Covering(last.pre, last.dst) = {})
                => last.ret = 0

\* more recently inserted entries stand first in the list
Reverse(list) == [i \in 1 .. Len(list) |-> list[Len(list) + 1 - i]]

\* the entry a match returned, ZeroSockaddr-free marker <<>> for null
Matched(list, q) ==
    LET r == stub_matchaddr(list, q)
    IN IF r = 0 THEN <<>> ELSE <<list[r]>>

\* C8: when a more specific prefix was inserted after a less specific one,
\* match_addr of an address inside the more specific prefix does not return
\* the less specific entry; and the entry returned is the same when the
\* same prefixes were inserted in the opposite order.
C8_MoreSpecificWins ==
    last.op = "match" =>
        /\ \A i, j \in 1 .. Len(last.pre) :
              (/\ i < j
               /\ EntryMaskBits(last.pre[i]) > EntryMaskBits(last.pre[j])
               /\ Contains(last.pre[i], last.dst)
               /\ Contains(last.pre[j], last.dst))
                    => last.ret # j
        /\ Matched(Reverse(last.pre), last.dst) = Matched(last.pre, last.dst)

\* C9: a walk whose visitor never stops it calls the visitor once for each
\* stored entry and for nothing else; the number of visits equals the
\* successful inserts minus the successful deletes, for the table as a
\* whole and for each (key, mask) pair.
C9_WalkVisitsEachLiveLeafOnce ==
    (last.op = "walk" /\ last.ret = 0) =>
        /\ Len(last.visited) = liveCount
        /\ \A i \in 1 .. Len(last.pre) :
              Cardinality({k \in 1 .. Len(last.visited) :
                              last.visited[k] = i}) = 1
        /\ \A k \in 1 .. Len(last.visited) :
              last.visited[k] \in 1 .. Len(last.pre)
        /\ \A p \in RouteArgs :
              Cardinality({k \in 1 .. Len(last.visited) :
                  IsPair(last.pre[last.visited[k]], p[1], p[2])}) = live[p]

\* C9's case: a complete walk of a table that still holds entries after
\* inserts and an out-of-order delete
C9_Witness ==
    /\ last.op = "walk"
    /\ last.ret = 0
    /\ Len(last.visited) >= 1
    /\ liveCount = Len(last.visited)
    /\ lastMut.outOfOrder

\* C10: a walk visits the entries in non-decreasing key order.
C10_WalkAscendingKeys ==
    last.op = "walk" =>
        \A k \in 1 .. (Len(last.visited) - 1) :
            last.pre[last.visited[k]].dst.s_addr
                <= last.pre[last.visited[k + 1]].dst.s_addr

\* ------------------------------------------------------------------------
\* Properties of the lock, continued (checked under SpecLock)
\* ------------------------------------------------------------------------
\* thread u has announced its intent to write: it is inside xnu_rm_wlock
\* (queued, waiting for rm->rw_lock or for the epoch) or holds the write lock
WriterIntent(u) ==
    thr[u].pc \in {"w_enqueue", "w_check", "w_assert", "w_blocked",
                   "w_dequeue", "w_excl", "w_epochwait", "w_setwriter",
                   "w_cs", "w_cs2", "w_unlock", "w_release"}

\* C11: a reader that starts its read lock while a writer is waiting for or
\* holds the write lock does not choose the lock-free fast path: it goes to
\* the blocking slow path.
C11_LateReaderTakesSlowPath ==
    [][\A t \in Threads :
          (/\ thr[t].pc = "idle"
           /\ thr'[t].pc \in {"r_enter", "r_slow"}
           /\ \E u \in Threads : u # t /\ WriterIntent(u))
                => thr'[t].pc = "r_slow"]_vars

\* ------------------------------------------------------------------------
\* Properties of the userland lock shims (checked under SpecShim)
\* ------------------------------------------------------------------------
\* a thread is waiting for or holds a write lock of either shim
ShimWriterPresent ==
    \E u \in Threads :
        uthr[u] \in {"kc_wlock", "kc_w_cs",
                     "sh_wrlock", "sh_wstats", "sh_w_cs", "sh_wunlock"}

\* C12: whenever no writer holds or waits for the lock, a thread inside a
\* read-lock call is not made to wait, however many readers are inside
\* their read sections: the primitive it called can return at once.
C12_ReadersNeverBlockReaders ==
    ~ShimWriterPresent =>
        \A t \in Threads :
            /\ uthr[t] = "kc_rlock" => pthread_mutex_free(kc_mutex)
            /\ uthr[t] = "sh_rdlock" => pthread_rwlock_rd_free(sh)

\* ------------------------------------------------------------------------
\* Properties of the grace-period wait (checked under SpecWait)
\* ------------------------------------------------------------------------
\* C13: the wait always ends: a call that finds readers that never exit
\* stops once the clock has passed the timeout, having reported it, and
\* a call never reports a timeout before the timeout has passed.
C13_GraceWaitTerminates ==
    /\ (wt.pc = "loop") ~> (wt.pc = "idle")
    /\ [](wt.reported => (wt.active_readers > 0
                            /\ wt.current_time > WaitTimeout))
    /\ []((wt.pc = "advance" /\ wt.active_readers > 0) => wt.reported)

\* C13's case: a call that found readers has returned after reporting the
\* timeout
C13_Witness ==
    /\ wt.pc = "idle"
    /\ wt.calls > 0
    /\ wt.active_readers > 0
    /\ wt.reported
    /\ wt.wait_iterations > 0

\* ------------------------------------------------------------------------
\* Properties of the writer wait queue
\* ------------------------------------------------------------------------
InWriteLockCall(t) ==
    thr[t].pc \in {"w_enqueue", "w_check", "w_assert", "w_blocked",
                   "w_dequeue", "w_excl", "w_epochwait", "w_setwriter"}

\* C14: the writer wait queue never deadlocks: when every holder eventually
\* releases, every call of write_lock() that has begun eventually returns.
C14_WriteLockReturns ==
    \A t \in Threads : InWriteLockCall(t) ~> (thr[t].pc = "w_cs")

\* the writers in the wait queue, and the priority each was queued with
QueuedWriters == {rm.writer_wait_queue[i].thread :
                      i \in 1 .. Len(rm.writer_wait_queue)}

\* C15: queued writers are served in priority order: whenever a queued
\* writer leaves the queue to take the lock, no writer of higher priority
\* is queued behind or before it, and it is the first in the queue.
C15_ServedInPriorityOrder ==
    [][\A t \in Threads :
          (thr[t].pc = "w_dequeue" /\ thr'[t].pc = "w_excl")
              => /\ Head(rm.writer_wait_queue).thread = t
                 /\ \A u \in QueuedWriters :
                        thread_get_importance(u) <= thread_get_importance(t)]_vars

\* the "writer waiting" flag is clear: readers are sent to the fast path
WriterWaitingClear == ~rm.writer_priority /\ rm.fast_path_enabled = 1

\* C16: when write_unlock() completes with no writer queued, writer
\* priority is off and the fast path is enabled, and as long as no writer
\* is queued a reader that asks for the fast path is sent to it.
C16_UnlockRestoresFastPath ==
    /\ [][\A t \in Threads :
            (/\ thr[t].pc = "w_wakeup"
             /\ thr'[t].pc = "idle"
             /\ rm.writer_wait_queue = <<>>)
                => (~rm'.writer_priority /\ rm'.fast_path_enabled = 1)]_vars
    /\ [](rm.writer_wait_queue = <<>> => WriterWaitingClear)
    /\ [][\A t \in Threads :
            (/\ thr[t].pc = "idle"
             /\ thr'[t].pc = "r_slow"
             /\ rm.writer_wait_queue = <<>>)
                => ENABLED (R_Start(t, TRUE) /\ thr'[t].pc = "r_enter")]_vars

\* C16's case: every write section has ended with write_unlock(), no
\* writer is queued, and a reader that came next is on the fast path
C16_Witness ==
    /\ writes_done = MaxWrites
    /\ rm.writer_wait_queue = <<>>
    /\ \A t \in Threads : ~InWriteLockCall(t)
                          /\ thr[t].pc \notin {"w_cs", "w_cs2", "w_unlock",
                                               "w_release", "w_wakeup"}
    /\ \E t \in Threads : thr[t].pc = "r_enter"

\* ------------------------------------------------------------------------
\* Properties of the epoch and its callbacks (checked under SpecEpoch)
\* ------------------------------------------------------------------------
\* C17: nested enter() calls on one tracker are counted by depth: a worker
\* with n open enters counts as exactly one active reader, its tracker
\* holding the depth n, and it stops counting at the exit that closes the
\* first enter.
C17_NestingCountsOnce ==
    /\ \A t \in Threads :
          /\ et[t].et_active <=> (et[t].depth > 0)
          /\ et[t].nesting = et[t].depth
    /\ remaining_readers(ectx) = Cardinality(ReadersInside)

\* C18: a callback queued with xnu_epoch_call and executed by the
\* reclamation is executed only after every reader that was inside its
\* read section when the callback was queued has left it (callbacks run by
\* the emergency reclamation are excepted).
C18_NoCallbackBeforeReadersLeave ==
    \A i \in CallbackIds :
        (cbs[i].state = "done" /\ cbs[i].by = "reclaim")
            => cbs[i].inside = {}

\* the queue's entries that are not flagged urgent, in queue order
NonUrgent(q) == SelectSeq(q, LAMBDA entry : ~entry.urgent)

\* callback i is in the queue with its urgent flag set
QueuedUrgent(i) ==
    \E k \in 1 .. Len(ectx.callback_queue) :
        ectx.callback_queue[k].id = i /\ ectx.callback_queue[k].urgent

\* callback i is executed by the emergency reclamation in this step
RunByEmergency(i) ==
    cbs[i].state = "queued" /\ cbs'[i].state = "done"
        /\ cbs'[i].by = "emergency"

\* C19: emergency reclamation executes only callbacks flagged urgent, and
\* it leaves every callback that is not flagged urgent in the queue, in
\* its place.
C19_EmergencyRunsOnlyUrgent ==
    [][/\ \A i \in CallbackIds : RunByEmergency(i) => QueuedUrgent(i)
       /\ (\E i \in CallbackIds : RunByEmergency(i))
             => /\ NonUrgent(ectx.callback_queue) = ectx'.callback_queue
                /\ \A j \in CallbackIds :
                      (cbs[j].state = "queued" /\ ~QueuedUrgent(j))
                          => /\ cbs'[j].state = "queued"
                             /\ cbs'[j].runs = cbs[j].runs]_vars

\* C19's case: the emergency reclamation has executed a callback while an
\* earlier callback, not flagged urgent, was queued, and that one still is
C19_Witness ==
    \E i, j \in CallbackIds :
        /\ j < i
        /\ cbs[i].state = "done" /\ cbs[i].by = "emergency"
        /\ cbs[i].runs = 1
        /\ cbs[j].state = "queued"
        /\ ~QueuedUrgent(j)

\* C20: teardown drains the callback queue synchronously: the step in
\* which xnu_epoch_free returns has executed, once, every callback that
\* was still queued, and after it the queue is empty and no callback is
\* left queued.
C20_TeardownDrainsCallbacks ==
    /\ [][(~ectx.freed /\ ectx'.freed)
            => /\ ectx'.callback_queue = <<>>
               /\ \A i \in CallbackIds :
                     cbs[i].state = "queued"
                         => /\ cbs'[i].state = "done"
                            /\ cbs'[i].runs = cbs[i].runs + 1]_vars
    /\ [](ectx.freed
            => /\ ectx.callback_queue = <<>>
               /\ \A i \in CallbackIds : cbs[i].state # "queued")

\* C20's case: the epoch has been torn down and the teardown executed
\* callbacks that were still queued
C20_Witness ==
    /\ ectx.freed
    /\ \A i \in CallbackIds : cbs[i].state = "done" /\ cbs[i].by = "free"

\* ------------------------------------------------------------------------
\* Properties of the concurrent stress test (checked under SpecConc)
\* ------------------------------------------------------------------------
\* C21: every call into the trie is bracketed by the lock: a thread that is
\* inside rnh_addaddr holds the table's write lock, and a thread that is
\* inside rnh_matchaddr holds at least its read lock.
C21_TrieCallsHoldLock ==
    \A t \in Threads :
        /\ conc.thr[t].pc = "in_add" => conc.lock.wr = t
        /\ conc.thr[t].pc = "in_match"
              => (t \in conc.lock.rd \/ conc.lock.wr = t)

\* the first invocation on which the walker of the last route_walk call
\* returned non-zero, among the invocations a full walk would make (0: none)
FirstStop(c) ==
    IF \E k \in 1 .. c.n : c.walker[k] # 0
    THEN CHOOSE k \in 1 .. c.n :
             c.walker[k] # 0 /\ \A j \in 1 .. (k - 1) : c.walker[j] = 0
    ELSE 0

\* C22: when the visitor asks for early termination by returning a non-zero
\* value, the walk stops at once, visits no further leaf, and returns that
\* value to the caller.
C22_EarlyTerminationReturnsVisitorValue ==
    (rl.last.op = "walk" /\ rl.rib[rl.last.fib] # NoHead
        /\ FirstStop(rl.last) # 0)
    => /\ rl.last.calls = FirstStop(rl.last)
       /\ rl.last.ret = rl.last.walker[FirstStop(rl.last)]

\* C24: route_walk on a table holding n routes, with a walker that always
\* returns 0, invokes the walker exactly n times and returns ROUTE_OK (0).
C24_FullWalkReturnsOk ==
    (rl.last.op = "walk" /\ rl.rib[rl.last.fib] # NoHead
        /\ rl.last.walker = NoWalker)
    => /\ rl.last.calls = rl.last.n
       /\ rl.last.ret = ROUTE_OK

\* what a caller sees of a table with these routes: the route every lookup
\* finds (or its failure), and the routes a full walk hands to the walker
Observe(list) ==
    [lookup |-> [d \in DstArgs |->
                    LET r == route_lookup(list, d)
                    IN IF r.re = 0 THEN <<r.ret>> ELSE <<r.ret, list[r.re]>>],
     walk |-> [k \in 1 .. rnh_walktree(list, NoWalker).calls |-> list[k]]]

\* C23: routing tables are independent: adding or deleting a route in one
\* table never changes the result of a lookup or a walk in any other table.
C23_TablesIndependent ==
    rl.last.op \in {"add", "delete"}
    => \A g \in Fibs \ {rl.last.fib} :
           Observe(TableOf(rl, g)) = Observe(rl.last.others[g])

\* C23's case: a route was added to or deleted from one table while another
\* table held routes
C23_Witness ==
    /\ rl.last.op \in {"add", "delete"}
    /\ rl.last.ret = ROUTE_OK
    /\ \E g \in Fibs \ {rl.last.fib} : Len(TableOf(rl, g)) > 0

\* C25: whenever a writer has been waiting for the lock longer than the
\* configured writer threshold, priority boost is applied to the readers
\* that are currently active: when the waiting writer tests its wait time
\* and finds it above the threshold, no active reader is left unboosted.
C25_LongWaitBoostsActiveReaders ==
    (bw.w.checks > 0 /\ bw.w.wait_time > writer_threshold)
    => bw.w.unboosted = {}

\* thread t begins a call of write_lock in this step
WriteLockBegins(t) == thr[t].pc = "idle" /\ thr'[t].pc \in WriterPcs

\* the order of the steps a call does perform: the queue is joined by a
\* caller that holds no lock yet, the exclusive lock is taken by a caller
\* that is not (or no longer) queued, and the grace-period wait begins and
\* ends with the exclusive lock held
WriteLockStepsInOrder(t) ==
    /\ (t \notin QueuedWriters /\ t \in QueuedWriters')
           => (thr[t].pc = "w_enqueue" /\ rw.excl # t)
    /\ (rw.excl # t /\ rw'.excl = t)
           => (thr[t].pc = "w_excl" /\ t \notin QueuedWriters)
    /\ (thr[t].pc # "w_epochwait" /\ thr'[t].pc = "w_epochwait")
           => rw'.excl = t
    /\ (thr[t].pc = "w_epochwait" /\ thr'[t].pc = "w_setwriter")
           => rw.excl = t

\* C26: write_lock() performs its steps in the stated order on every call:
\* it first announces intent by joining the priority-ordered writer wait
\* queue, then acquires the exclusive lock, and only then waits for the
\* grace period.
C26_JoinsQueueThenLocksThenWaits ==
    [][\A t \in Threads :
          /\ WriteLockBegins(t) => thr'[t].pc = "w_enqueue"
          /\ WriteLockStepsInOrder(t)]_vars

\* the changes of gp_state along the cycle IDLE, STARTED, WAITING,
\* COMPLETED, IDLE
GpCycle ==
    {<<GP_STATE_IDLE, GP_STATE_STARTED>>, <<GP_STATE_STARTED, GP_STATE_WAITING>>,
     <<GP_STATE_WAITING, GP_STATE_COMPLETED>>, <<GP_STATE_COMPLETED, GP_STATE_IDLE>>}

\* C27 as stated: the grace-period state only ever changes along the cycle
\* IDLE, STARTED, WAITING, COMPLETED, IDLE: every grace period passes
\* through each of these states in this order and no state is skipped.
C27_Original ==
    [][gp'.gp_state # gp.gp_state
          => <<gp.gp_state, gp'.gp_state>> \in GpCycle]_vars

\* C27 (amended): the grace-period state only ever changes along the cycle
\* IDLE, STARTED, WAITING, COMPLETED, IDLE, except that a grace period
\* started while no CPU has an active reader goes from STARTED directly to
\* COMPLETED, skipping WAITING.
C27_CycleOrImmediateCompletion ==
    [][gp'.gp_state # gp.gp_state
          => \/ <<gp.gp_state, gp'.gp_state>> \in GpCycle
             \/ /\ gp.gp_state = GP_STATE_STARTED
                /\ gp'.gp_state = GP_STATE_COMPLETED
                /\ ActiveCpus(gp) = {}]_vars

\* C27's case: a second grace period is under way, so the first went all
\* the way round the cycle, and this one waits for a CPU with a reader
C27_Witness ==
    /\ gp.gp_number = 2
    /\ gp.gp_state = GP_STATE_WAITING
    /\ gp.start_active # {}

C29_TargetIsNextEpoch ==
    [][\A i \in CallbackIds :
          (cbs[i].state = "none" /\ cbs'[i].state = "queued")
          => LET q == ectx'.callback_queue
                 entry == q[Len(q)]
             IN /\ Len(q) = Len(ectx.callback_queue) + 1
                /\ entry.id = i
                /\ entry.target_epoch = ectx.epoch_number + 1]_vars

\* C29's case: two callbacks queued by calls made in different epochs
C29_Witness ==
    /\ Len(ectx.callback_queue) >= 2
    /\ ectx.callback_queue[1].target_epoch # ectx.callback_queue[2].target_epoch

\* the driver handles GP_STATE_COMPLETED in this step
DriverHandlesCompleted ==
    gp.gp_state = GP_STATE_COMPLETED /\ gp'.gp_state # GP_STATE_COMPLETED

\* C30: each time the grace-period driver reaches COMPLETED it checks
\* memory pressure, and if the number of queued callbacks exceeds the
\* high-water mark it triggers emergency reclamation.
C30_CompletedChecksMemoryPressure ==
    [][DriverHandlesCompleted
          => /\ gp'.pressure_checked
             /\ gp.callback_queue > high_water(gp.memory.callback_limit)
                    => gp'.emergency_reclaim]_vars

\* the stored routes of a list whose destination and netmask equal the
\* arguments of a route_delete call
RoutesEqualTo(list, dst, netmask) ==
    {i \in 1 .. Len(list) :
        list[i].dst = dst /\ stored_netmask(list[i]) = netmask}

\* C31: route_delete(rh, dst, netmask) removes the route whose stored
\* destination and netmask equal dst and netmask, and no other route; if no
\* such route is stored it returns ROUTE_ENOENT and the table is unchanged.
C31_DeleteRemovesExactRoute ==
    [][\A f \in Fibs, d \in DstArgs, m \in MaskArgs :
          (rl.rib[f] # NoHead /\ RL_Delete(f, d, m))
          => LET list == TableOf(rl, f)
                 same == RoutesEqualTo(list, d, m)
             IN IF same = {}
                THEN /\ rl'.last.ret = ROUTE_ENOENT
                     /\ TableOf(rl', f) = list
                ELSE /\ rl'.last.ret = ROUTE_OK
                     /\ \E i \in same : TableOf(rl', f) = unlink(list, i)]_vars

\* ------------------------------------------------------------------------
\* Properties of the route library under concurrent callers (SpecRc)
\* ------------------------------------------------------------------------
\* C32: every route_add, route_delete, route_lookup and route_walk call
\* releases the table lock it acquired on every return path: a thread that
\* has returned from a call, or has not yet taken the lock, holds it in no
\* mode, so when no call is in progress the lock is held by no one.
C32_LockReleasedOnEveryReturn ==
    /\ \A t \in Threads :
           rc.thr[t].pc \in {"idle", "return", "wlock", "rlock"}
           => (rc.lock.wr # t /\ t \notin rc.lock.rd)
    /\ (\A t \in Threads : rc.thr[t].pc = "idle")
           => (rc.lock.wr = THREAD_NULL /\ rc.lock.rd = {})

\* C32's case: calls have returned on failing paths (a route_delete that
\* found nothing, a route_add that could not store) and no call is in
\* progress
C32_Witness ==
    /\ \A t \in Threads : rc.thr[t].pc = "idle"
    /\ \E t \in Threads :
           rc.thr[t].done = "delete" /\ rc.thr[t].ret = ROUTE_ENOENT
    /\ \E t \in Threads :
           rc.thr[t].done = "add" /\ rc.thr[t].ret \in {ROUTE_ENOMEM, ROUTE_EEXIST}

\* thread t is inside a route_change whose route_delete call has removed
\* the route and whose route_add call has not yet stored the new one
ChangeUnderWay(t) ==
    /\ rc.thr[t].outer = "change"
    /\ rc.thr[t].op = "add"
    /\ rc.thr[t].pc \in {"wlock", "body"}

\* C33: route_change of an existing route is atomic for concurrent readers:
\* no route_lookup for that destination that runs concurrently with the
\* change returns ROUTE_ENOENT. (A lookup at "runlock" has just searched
\* the table and still holds the read lock, so it searched while the change
\* was in the state it is in now.)
C33_ChangeAtomicForLookups ==
    \A u \in Threads, t \in Threads :
        (/\ rc.thr[u].op = "lookup"
         /\ rc.thr[u].pc = "runlock"
         /\ ChangeUnderWay(t)
         /\ rc.thr[t].dst = rc.thr[u].dst)
        => rc.thr[u].ret # ROUTE_ENOENT

\* ------------------------------------------------------------------------
\* Properties of the epoch and its callbacks, continued
\* ------------------------------------------------------------------------
\* C34: every callback queued with schedule_reclaim is eventually executed,
\* provided every reader eventually exits, even if no further callback is
\* queued and no writer takes the lock afterwards.
C34_QueuedCallbackEventuallyRuns ==
    \A i \in CallbackIds : (cbs[i].state = "queued") ~> (cbs[i].state = "done")

\* C35: each queued callback is executed at most once, whichever of normal
\* reclamation, emergency reclamation or epoch teardown runs it.
C35_CallbackRunsAtMostOnce ==
    \A i \in CallbackIds :
        /\ cbs[i].runs <= 1
        /\ cbs[i].state = "done"
               => \A k \in 1 .. Len(ectx.callback_queue) :
                      ectx.callback_queue[k].id # i

\* C35's case: the emergency reclamation has executed one callback, and
\* the teardown that followed has executed another that was still queued
C35_Witness ==
    /\ ectx.freed
    /\ \E i \in CallbackIds, j \in CallbackIds :
           /\ cbs[i].by = "emergency" /\ cbs[i].runs = 1
           /\ cbs[j].by = "free" /\ cbs[j].runs = 1

\* the trackers that are active on CPU c
TrackersOn(c) == {t \in Threads : et[t].et_active /\ et[t].et_cpu = c}

\* C36: a worker's (CPU's) active-reader counter always equals the number
\* of trackers currently active on it, that is, outermost enters not yet
\* matched by their final exit; it never drops below zero and is zero
\* whenever no reader is inside.
C36_CounterEqualsActiveTrackers ==
    /\ \A c \in Cpus :
          /\ ectx.cpu_readers[c] = Cardinality(TrackersOn(c))
          /\ ectx.cpu_readers[c] >= 0
    /\ ReadersInside = {} => \A c \in Cpus : ectx.cpu_readers[c] = 0

\* ------------------------------------------------------------------------
\* Properties of xnu_rm_try_wlock (checked under SpecTry)
\* ------------------------------------------------------------------------
\* what the call has when it returns: with true, the exclusive lock and the
\* caller as current writer; with false, the lock in no mode
TryReturnsConsistent(t) ==
    /\ thr[t].pc = "t_true" => (rw.excl = t /\ rm.current_writer = t)
    /\ thr[t].pc = "t_false" => (rw.excl # t /\ t \notin rw.shared)

\* what a step of the call decides: false when a tracked reader is seen,
\* when the exclusive lock is not free, or when an epoch reader is active,
\* in which case the lock is given back; it goes on to record the writer
\* only with the lock held and no tracked or epoch reader active; and a
\* call that returns false has left the current writer as it was
TryDecides(t) ==
    /\ (thr[t].pc = "t_readers" /\ rm.current_readers > 0)
           => thr'[t].pc = "t_false"
    /\ (thr[t].pc = "t_trylock" /\ ~lck_rw_exclusive_free(rw))
           => (thr'[t].pc = "t_false" /\ rw' = rw)
    /\ (thr[t].pc = "t_epoch" /\ total_epoch_readers(epoch) > 0)
           => (thr'[t].pc = "t_false" /\ rw'.excl = THREAD_NULL)
    /\ thr'[t].pc = "t_setwriter"
           => (/\ rw'.excl = t
               /\ rm.current_readers = 0
               /\ total_epoch_readers(epoch) = 0)
    /\ (thr[t].pc \in TryPcs /\ thr'[t].pc \in TryPcs \cup {"t_false"})
           => rm'.current_writer = rm.current_writer

\* C37: xnu_rm_try_wlock never blocks: it returns true only with the
\* exclusive lock held and the caller recorded as current writer, and
\* whenever a tracked or epoch reader is active or the exclusive lock is
\* unavailable it returns false holding no lock and leaving the current
\* writer unchanged.
C37_TryWlockNeverBlocks ==
    /\ [](\A t \in Threads :
             /\ thr[t].pc \in TryPcs => ENABLED TryStep(t)
             /\ TryReturnsConsistent(t))
    /\ [][\A t \in Threads : (thr'[t] # thr[t]) => TryDecides(t)]_vars

\* C37's case: one call is returning true, and another, made while that
\* writer holds the lock, is returning false
C37_Witness ==
    \E t \in Threads, u \in Threads :
        /\ thr[t].pc = "t_true"
        /\ thr[u].pc = "t_false"

\* ------------------------------------------------------------------------
\* Properties of the userland lock shims, continued (checked under SpecShim)
\* ------------------------------------------------------------------------
\* C38: in the userland rmlock the writers counter is always 0 or 1 and is
\* 1 only while a thread holds the write lock, and the readers and writers
\* counters are never both non-zero.
C38_WritersCounterIsWriteLockHeld ==
    /\ sh.writers \in {0, 1}
    /\ sh.writers = 1 => sh.wr # THREAD_NULL
    /\ ~(sh.readers # 0 /\ sh.writers # 0)

\* C38's case: a writer holds the lock with its counter set, after readers
\* have been counted in and out, while another thread waits to read
C38_Witness ==
    /\ sh.writers = 1
    /\ sh.total_reads > 0
    /\ \E t \in Threads : uthr[t] = "sh_rdlock"

\* ------------------------------------------------------------------------
\* Properties of the epoch's callback accounting (checked under SpecEpoch)
\* ------------------------------------------------------------------------
\* C39: memory.callback_count always equals the number of entries in the
\* callback queue, after any sequence of schedule, reclaim and
\* emergency-reclaim steps.
C39_CallbackCountEqualsQueueLength ==
    EpochLive => ectx.callback_count = Len(ectx.callback_queue)

\* ------------------------------------------------------------------------
\* Properties of the reader slots of the lock (checked under SpecLock)
\* ------------------------------------------------------------------------
OccupiedReaderSlots == {i \in Slots : rm.active_readers[i] # THREAD_NULL}

\* the step of xnu_rm_untrack_reader taken by thread t frees exactly one
\* slot, which held t, and leaves the other slots as they were
UntrackFreesOwnSlot(t) ==
    (thr[t].pc = "r_untrack" /\ thr'[t].pc = "r_exit") =>
        \E i \in Slots :
            /\ rm.active_readers[i] = t
            /\ rm'.active_readers[i] = THREAD_NULL
            /\ \A j \in Slots \ {i} :
                   rm'.active_readers[j] = rm.active_readers[j]

====
